---- MODULE Spec2Model ----
(***************************************************************************)
(* A model of the packet plane of the single-host IP internetwork          *)
(* simulation: the Go-Back-N transfer run by tcp_client.py and             *)
(* tcp_server.py, the link-state flooding, shortest-path computation and   *)
(* longest-prefix forwarding of router.py.                                 *)
(*                                                                         *)
(* The module holds several specifications over one set of variables; the  *)
(* variables a specification does not use stay at their initial value.     *)
(*   SpecGBN / FairGBN : one Go-Back-N transfer (sender, channel, receiver)*)
(***************************************************************************)
EXTENDS Integers, Sequences, FiniteSets, TLC

\* ---------------------------------------------------------------- bounds
MaxSegs == 5
MaxWindow == 3
MaxLoss == 2
MaxRouters == 3
MaxCost == 2
MaxTableLen == 3
MaxTime == 12
MaxSeq == 1
MaxInject == 2
MaxStamp == 3
MaxRequests == 2
MaxCopies == 1
MaxReqSegs == 2
MaxPayload == 2

\* ------------------------------------------------------- program constants
\* seq_num and ack_num of a fresh endpoint (the initial sequence number).
ISN == 0
FlagSYN == 2
FlagACK == 16
FlagFINACK == 17
FlagSYNACK == 18
FlagPSHACK == 24
FlagFINPSHACK == 25

ClientIP == "127.0.0.1"
ServerIP == "127.128.0.1"
ClientGateway == "127.0.0.254"
ServerGateway == "127.128.0.254"

\* A minimum that is its first argument.
First(a, b) == a

Min(a, b) == IF a < b THEN a ELSE b

VARIABLES
    \* ---- Go-Back-N transfer
    role,           \* which endpoint sends: "client" (request) or "server" (response)
    nsegs,          \* len(segments)
    window_size,    \* self.window_size of the sender (after the handshake's min)
    sock_timeout,   \* TRUE when the sender's socket has a receive timeout set
    base,           \* self.base of the sender
    seq_num,        \* self.seq_num of the sender
    init_seq_num,   \* init_seq_num, the sender's seq_num when the send started
    flags,          \* the local variable flags of the send loop
    spc,            \* sender position: "burst" (for loop), "wait" (ACK loop), "done"
    burstIdx,       \* index into segments of the for loop's next element
    burstEnd,       \* end of the slice segments[base:min(len, base+window)]
    dataQ,          \* datagrams in flight, sender to receiver (FIFO)
    ackQ,           \* datagrams in flight, receiver to sender (FIFO)
    ack_num,        \* self.ack_num of the receiver
    reassembled,    \* request / response string of the receiver, as segment indices
    rflags,         \* the local variable flags of process_response_segments
    rpc,            \* receiver position: "recv", "fin" (loop ended), "budget" (15 s)
    lost,           \* datagrams the channel has dropped so far
    burstKind,      \* "first" for the first pass of the for loop, "rexmit" after a timeout
    sentLog,        \* every segment transmission: <<index, seq_num, flags, how>>
    acksSent,       \* the number of ACKs the receiver sent for the frame it handled last (history)
    lastSeq,        \* the seq_num of the segment the receiver handled last (history)
    lastAck,        \* the ACK the receiver sent last (history)
    ackLost,        \* TRUE once the channel has dropped an ACK (history)
    lastTaken,      \* the flags of the segment the receiver took last in order (history)
    burstSent,      \* the segment indices the for loop has sent since it started (history)
    \* ---- run_route_alg on one router
    rt_self,        \* self.router_id
    rt_lsdb,        \* self.lsdb
    rt_table,       \* self.forwarding_table
    rt_pc,          \* "ready" before run_route_alg, "done" after
    \* ---- forward_datagram on one router
    fw_table,       \* self.forwarding_table
    fw_in,          \* the datagram forward_datagram is called with
    fw_out,         \* the sendto calls made: a sequence of [iface, to, dgram]
    fw_choice,      \* longest_prefix when the match loop ended (0: None), as an index
    fw_pc,          \* "ready" before forward_datagram, "done" after
    \* ---- the routers of a mesh in the flooding phase of process_datagrams
    ls_topo,        \* the mesh NetworkApp was built with
    ls_sock,        \* the socket the platform hands a received LSA to:
                    \* "interface" (the one bound to the address it was sent to)
                    \* or "rec" (the one bound to 0.0.0.0)
    ls_now,         \* time.time(), in seconds since the routers were made
    ls_lsdb,        \* router -> self.lsdb
    ls_num,         \* router -> self.router_lsa_num
    ls_timer,       \* router -> self.lsa_timer
    ls_busy,        \* router -> the time its time.sleep(1) of forward_lsa ends
    ls_phase,       \* router -> "flooding" | "forwarding"
    ls_table,       \* router -> self.forwarding_table
    ls_init,        \* the number of routers run_app has called send_initial_lsa on
    ls_pending,     \* router -> the LSA forward_lsa sends when its sleep ends
    ls_queue,       \* router -> the LSA datagrams sent to it and not yet read, in order
    ls_accepted,    \* router -> the <<adv, seq>> it has accepted (history)
    ls_last,        \* the LSA last read by a router, and by which (history)
    ls_injected,    \* the number of datagrams sent by other senders than the routers
    ls_http,        \* per router: the HTTP datagrams its sockets hold (FIFO)
    ls_calls,       \* the calls of forward_datagram made so far (history)
    \* ---- process_request
    http_store,     \* self.resources: resource name to entry
    http_before,    \* self.resources when the request arrived (history)
    http_req,       \* the request text, as the fields process_request reads
    http_resp,      \* the response text (data), as its status line, header and body
    http_pc,        \* "process" (request received), "sending", "raised", "idle"
    http_served,    \* the number of connections served so far
    \* ---- three-way handshake
    hs_client,      \* the client: position, self.seq_num, self.ack_num, self.window_size
    hs_server,      \* the server: position, self.seq_num, self.ack_num, self.window_size
    hs_c2s,         \* datagrams in flight to the server's socket (FIFO)
    hs_s2c,         \* datagrams in flight to the client's socket (FIFO)
    hs_lost,        \* the number of handshake datagrams dropped so far
    hop_copies,     \* the number of datagrams a socket got as an earlier hop sent them
    \* ---- request_resource and run_server: one connection from start to end
    cl_pc,          \* the client in request_resource: "handshake", "sending",
                    \* "receiving", "closed" (close_socket called)
    cl_result,      \* what request_resource returned ("": nothing yet)
    sv_pc,          \* the server in run_server: "handshake", "receiving",
                    \* "processing", "closed" (run_server returned or raised)
    sv_request,     \* the request receive_request_segments returned (history)
    hs_junk,        \* the number of other datagrams sent to the client's socket
    \* ---- pdu.py: a datagram, its bytes, and the task that reads them
    wire_task,      \* the class converting, or the task whose recv got the buffer
    wire_in,        \* the datagram object to_bytes is called on
    wire_bytes,     \* the bytes: what to_bytes returned, what recv returned
    wire_out,       \* what from_bytes returned or raised; what the router sent on
    wire_pc,        \* the position of the conversion or of the task
    \* ---- one datagram on its way through a mesh whose routers have their tables
    path_mesh,      \* the mesh: a topology, or the sample of network_app.py
    path_tables,    \* forwarding_table of every router of the mesh
    path_at,        \* the router whose socket holds the datagram
    path_dgram,     \* the datagram as the last sender built it
    path_visited,   \* the routers that have read the datagram, in order (history)
    path_out,       \* the last sendto of forward_datagram: interface and address
    path_pc         \* "forwarding", "emitted" (sent to a host), "dropped"

gbnVars == <<role, nsegs, window_size, sock_timeout, base, seq_num, init_seq_num,
             flags, spc, burstIdx, burstEnd, dataQ, ackQ, ack_num, reassembled,
             rflags, rpc, lost, burstKind, sentLog, acksSent, lastSeq, lastAck,
             ackLost, lastTaken, burstSent>>

rtVars == <<rt_self, rt_lsdb, rt_table, rt_pc>>

fwVars == <<fw_table, fw_in, fw_out, fw_choice, fw_pc>>

lsVars == <<ls_topo, ls_sock, ls_now, ls_lsdb, ls_num, ls_timer, ls_busy, ls_pending,
            ls_phase, ls_table, ls_init, ls_queue, ls_accepted, ls_last, ls_injected>>

httpVars == <<http_store, http_before, http_req, http_resp, http_pc, http_served>>

hsVars == <<hs_client, hs_server, hs_c2s, hs_s2c, hs_lost, hop_copies>>

phVars == <<ls_http, ls_calls>>

connVars == <<cl_pc, cl_result, sv_pc, sv_request, hs_junk>>

wireVars == <<wire_task, wire_in, wire_bytes, wire_out, wire_pc>>

pathVars == <<path_mesh, path_tables, path_at, path_dgram, path_visited, path_out, path_pc>>

otherThanGbn == <<rtVars, fwVars, lsVars, httpVars, hsVars, phVars, connVars, wireVars, pathVars>>
otherThanRt == <<gbnVars, fwVars, lsVars, httpVars, hsVars, phVars, connVars, wireVars, pathVars>>
otherThanFw == <<gbnVars, rtVars, lsVars, httpVars, hsVars, phVars, connVars, wireVars, pathVars>>
otherThanLs == <<gbnVars, rtVars, fwVars, httpVars, hsVars, phVars, connVars, wireVars, pathVars>>
otherThanHttp == <<rtVars, fwVars, lsVars, hsVars, phVars, connVars, wireVars, pathVars>>
otherThanHs == <<gbnVars, rtVars, fwVars, lsVars, httpVars, phVars, connVars, wireVars, pathVars>>
otherThanPh == <<gbnVars, rtVars, fwVars, httpVars, hsVars, connVars, wireVars, pathVars>>
otherThanConn == <<rtVars, fwVars, lsVars, phVars, wireVars, pathVars>>
otherThanWire ==
    <<gbnVars, rtVars, fwVars, lsVars, httpVars, hsVars, phVars, connVars, pathVars>>

otherThanPath ==
    <<gbnVars, rtVars, fwVars, lsVars, httpVars, hsVars, phVars, connVars, wireVars>>

vars == <<gbnVars, rtVars, fwVars, lsVars, httpVars, hsVars, phVars, connVars, wireVars,
          pathVars>>

\* ------------------------------------------------------------ addresses
SenderIP == IF role = "client" THEN ClientIP ELSE ServerIP
ReceiverIP == IF role = "client" THEN ServerIP ELSE ClientIP
SenderGateway == IF role = "client" THEN ClientGateway ELSE ServerGateway
ReceiverGateway == IF role = "client" THEN ServerGateway ELSE ClientGateway

\* HTTPDatagram: the fields the endpoints read.  data is the index of the
\* segment carried ("ACK" for an acknowledgment).
HTTPDatagram(src, dst, seq, ack, fl, nh, data) ==
    [ip_saddr |-> src, ip_daddr |-> dst, seq_num |-> seq, ack_num |-> ack,
     flags |-> fl, next_hop |-> nh, data |-> data]

\* The router mesh between the endpoints: the last router on the path rewrites
\* next_hop to the address of its peer on the outgoing interface, the endpoint.
Routed(d) == [d EXCEPT !.next_hop = d.ip_daddr]

\* sendto through the mesh: the datagram joins the queue, or the channel
\* drops it (at most MaxLoss drops in a behaviour).
Transmit(q, d, q2, lost2) ==
    \/ /\ q2 = Append(q, Routed(d))
       /\ lost2 = lost
    \/ /\ lost < MaxLoss
       /\ q2 = q
       /\ lost2 = lost + 1

\* ------------------------------------------------------------- sender
\* The FIN promotion in the for loop (the server promotes only from 24).
BurstPromoteCond ==
    /\ seq_num - init_seq_num = nsegs - 1
    /\ (role = "server" => flags = FlagPSHACK)

\* The FIN promotion in the ACK branch.
AckPromoteCond ==
    /\ base = Min(nsegs, base + window_size) - 1
    /\ (role = "server" => flags = FlagPSHACK)

\* An ACK test that expects the number of the oldest unacknowledged segment
\* itself instead of the number after it.
AckOfBase(d) ==
    /\ d.next_hop = SenderIP
    /\ d.ip_saddr = ReceiverIP
    /\ d.flags = FlagACK
    /\ d.ack_num = base + init_seq_num

\* An ACK test that takes any acknowledgment number.
AnyAckNumber(d) ==
    /\ d.next_hop = SenderIP
    /\ d.ip_saddr = ReceiverIP
    /\ d.flags = FlagACK

\* The test on a received frame in the ACK loop.
AcceptableAck(d) ==
    /\ d.next_hop = SenderIP
    /\ d.ip_saddr = ReceiverIP
    /\ d.flags = FlagACK
    /\ d.ack_num = base + init_seq_num + 1

\* One iteration of the for loop: send the next segment of the slice.
SendSegment ==
    /\ spc = "burst"
    /\ burstIdx < burstEnd
    /\ LET fl == IF BurstPromoteCond THEN FlagFINPSHACK ELSE flags
           d == HTTPDatagram(SenderIP, ReceiverIP, seq_num, ISN + 1, fl,
                             SenderGateway, burstIdx)
       IN /\ flags' = fl
          /\ Transmit(dataQ, d, dataQ', lost')
          /\ sentLog' = sentLog \cup {<<burstIdx, seq_num, fl, burstKind>>}
    /\ seq_num' = seq_num + 1
    /\ burstIdx' = burstIdx + 1
    /\ spc' = IF burstIdx + 1 < burstEnd THEN "burst" ELSE "wait"
    /\ UNCHANGED <<role, nsegs, window_size, sock_timeout, base, init_seq_num,
                   burstEnd, ackQ, ack_num, reassembled, rflags, rpc, burstKind,
                   acksSent, lastSeq, lastAck, ackLost, lastTaken>>
    /\ burstSent' = Append(burstSent, burstIdx)
    /\ UNCHANGED otherThanGbn

\* One iteration of the ACK loop with a frame received.
ReceiveAck ==
    /\ spc = "wait"
    /\ ackQ # <<>>
    /\ LET d == Head(ackQ) IN
       IF AcceptableAck(d)
       THEN /\ IF base + window_size < nsegs
               THEN LET fl == IF AckPromoteCond THEN FlagFINPSHACK ELSE flags
                        nd == HTTPDatagram(SenderIP, ReceiverIP, seq_num, ISN + 1,
                                           fl, SenderGateway, base + window_size)
                    IN /\ flags' = fl
                       /\ Transmit(dataQ, nd, dataQ', lost')
                       /\ sentLog' = sentLog \cup
                              {<<base + window_size, seq_num, fl, "ack">>}
                       /\ seq_num' = seq_num + 1
               ELSE UNCHANGED <<flags, dataQ, lost, sentLog, seq_num>>
            /\ base' = base + 1
            /\ spc' = IF base + 1 < nsegs THEN "wait" ELSE "done"
       ELSE UNCHANGED <<flags, dataQ, lost, sentLog, seq_num, base, spc>>
    /\ ackQ' = Tail(ackQ)
    /\ UNCHANGED <<role, nsegs, window_size, sock_timeout, init_seq_num, burstIdx,
                   burstEnd, ack_num, reassembled, rflags, rpc, burstKind,
                   acksSent, lastSeq, lastAck, ackLost, lastTaken, burstSent>>
    /\ UNCHANGED otherThanGbn

\* A timeout that leaves seq_num where the last burst ended.
RewindNone == seq_num

\* self.seq_num = self.base + init_seq_num: the rewind on a timeout.
RewindSeq == base + init_seq_num

\* socket.timeout in the ACK loop: nothing arrived for the socket's timeout,
\* which on the loopback mesh means nothing is in flight any more.
Timeout ==
    /\ spc = "wait"
    /\ sock_timeout
    /\ ackQ = <<>>
    /\ dataQ = <<>>
    /\ seq_num' = RewindSeq
    /\ spc' = "burst"
    /\ burstIdx' = base
    /\ burstEnd' = Min(nsegs, base + window_size)
    /\ burstKind' = "rexmit"
    /\ UNCHANGED <<role, nsegs, window_size, sock_timeout, base, init_seq_num, flags,
                   dataQ, ackQ, ack_num, reassembled, rflags, rpc, lost, sentLog,
                   acksSent, lastSeq, lastAck, ackLost, lastTaken>>
    /\ burstSent' = <<>>
    /\ UNCHANGED otherThanGbn

\* ------------------------------------------------------------ receiver
\* The flags a receiver takes a data segment with.
DataFlags == IF role = "server" THEN {FlagFINACK, FlagPSHACK, FlagFINPSHACK}
             ELSE {FlagPSHACK, FlagFINPSHACK}

\* A receiver that tests the address and the flags of a frame only.
DataToMe(d) ==
    /\ d.ip_daddr = ReceiverIP
    /\ d.flags \in DataFlags

\* The frame passes the receiver's address, next_hop and flags tests.
DataForMe(d) ==
    /\ d.ip_daddr = ReceiverIP
    /\ d.next_hop = ReceiverIP
    /\ d.flags \in DataFlags

\* A receiver that also takes a segment it has already taken.
InOrderOrOld(d) == d.seq_num <= ack_num

\* The in-order test.
InOrder(d) == d.seq_num = ack_num

\* request[-4:] == '\r\n\r\n': a request built by build_request holds the empty
\* line only at its end, so the text ends with it once the last chunk is appended.
RequestComplete(req) == Len(req) > 0 /\ req[Len(req)] = nsegs - 1

\* The receiving loop ends: the server on the end of the request text, the
\* client on the flags of the last segment it took in order.
ReceptionOver(req, fl) ==
    IF role = "client" THEN RequestComplete(req)
    ELSE fl \in {FlagFINPSHACK, FlagFINACK}

\* One iteration of the receiving loop with a frame received.
ReceiveSegment ==
    /\ rpc = "recv"
    /\ dataQ # <<>>
    /\ LET d == Head(dataQ) IN
       IF DataForMe(d)
       THEN LET take == InOrder(d)
                an == IF take THEN ack_num + 1 ELSE ack_num
                req == IF take THEN Append(reassembled, d.data) ELSE reassembled
                fl == IF take /\ role = "server" THEN d.flags ELSE rflags
                ack == HTTPDatagram(ReceiverIP, d.ip_saddr, ISN + 1, an, FlagACK,
                                    ReceiverGateway, "ACK")
            IN /\ ack_num' = an
               /\ reassembled' = req
               /\ rflags' = fl
               /\ Transmit(ackQ, ack, ackQ', lost')
               /\ acksSent' = 1
               /\ lastSeq' = d.seq_num
               /\ lastAck' = ack
               /\ ackLost' = (ackLost \/ lost' # lost)
               /\ lastTaken' = IF take THEN d.flags ELSE lastTaken
               /\ rpc' = IF ReceptionOver(req, fl) THEN "fin" ELSE "recv"
       ELSE UNCHANGED <<ack_num, reassembled, rflags, ackQ, lost, rpc, acksSent, lastSeq,
                        lastAck, ackLost, lastTaken>>
    /\ dataQ' = Tail(dataQ)
    /\ UNCHANGED <<role, nsegs, window_size, sock_timeout, base, seq_num, init_seq_num,
                   flags, spc, burstIdx, burstEnd, burstKind, sentLog, burstSent>>
    /\ UNCHANGED otherThanGbn

\* A data segment that arrives once the receiving loop has ended: the server
\* reads it in the ACK loop of process_request, where it is no ACK; the client
\* has closed its socket.
IgnoreSegment ==
    /\ rpc # "recv"
    /\ dataQ # <<>>
    /\ dataQ' = Tail(dataQ)
    /\ UNCHANGED <<role, nsegs, window_size, sock_timeout, base, seq_num, init_seq_num,
                   flags, spc, burstIdx, burstEnd, ackQ, ack_num, reassembled, rflags,
                   rpc, lost, burstKind, sentLog, acksSent, lastSeq, lastAck, ackLost,
                   lastTaken, burstSent>>
    /\ UNCHANGED otherThanGbn

\* The 15 s budget of process_response_segments runs out: with loopback
\* delays far below a second that is when the server has built its response
\* (or died), nothing is in flight and the sender has no segment left to send.
BudgetExpired ==
    /\ role = "server"
    /\ rpc = "recv"
    /\ http_pc # "process"
    /\ spc # "burst"
    /\ dataQ = <<>>
    /\ ackQ = <<>>
    /\ rpc' = "budget"
    /\ UNCHANGED <<role, nsegs, window_size, sock_timeout, base, seq_num, init_seq_num,
                   flags, spc, burstIdx, burstEnd, dataQ, ackQ, ack_num, reassembled,
                   rflags, lost, burstKind, sentLog, acksSent, lastSeq, lastAck, ackLost,
                   lastTaken, burstSent>>
    /\ UNCHANGED otherThanGbn

\* ------------------------------------------------- SpecGBN: one transfer
\* The transfer variables at the start of a send by endpoint r of n segments
\* with window w and initial flags f.
GbnStart(r, n, w, f) ==
    /\ role = r
    /\ nsegs = n
    /\ window_size = w
    /\ sock_timeout = (r = "client")
    /\ base = 0
    /\ seq_num = ISN + 1
    /\ init_seq_num = ISN + 1
    /\ flags = f
    /\ spc = "burst"
    /\ burstIdx = 0
    /\ burstEnd = Min(n, w)
    /\ dataQ = <<>>
    /\ ackQ = <<>>
    /\ ack_num = ISN + 1
    /\ reassembled = <<>>
    /\ rflags = FlagPSHACK
    /\ rpc = "recv"
    /\ lost = 0
    /\ burstKind = "first"
    /\ sentLog = {}
    /\ acksSent = 0
    /\ lastSeq = 0
    /\ lastAck = HTTPDatagram("", "", 0, 0, 0, "", "none")
    /\ ackLost = FALSE
    /\ lastTaken = 0
    /\ burstSent = <<>>

\* The transfer variables of a specification that runs no transfer.
GbnIdle == GbnStart("client", 1, 1, FlagPSHACK)

\* The routing variables of a specification that runs no route computation.
RtIdle ==
    /\ rt_self = 0
    /\ rt_lsdb = <<>>
    /\ rt_table = <<>>
    /\ rt_pc = "idle"

\* The forwarding variables of a specification that forwards nothing.
FwIdle ==
    /\ fw_table = <<>>
    /\ fw_in = <<>>
    /\ fw_out = <<>>
    /\ fw_choice = 0
    /\ fw_pc = "idle"

\* The mesh variables of a specification without a mesh.
LsIdle ==
    /\ ls_topo = [n |-> 0, kind |-> "line"]
    /\ ls_sock = "rec"
    /\ ls_now = 0
    /\ ls_lsdb = <<>>
    /\ ls_num = <<>>
    /\ ls_timer = <<>>
    /\ ls_busy = <<>>
    /\ ls_phase = <<>>
    /\ ls_table = <<>>
    /\ ls_init = 0
    /\ ls_pending = <<>>
    /\ ls_queue = <<>>
    /\ ls_accepted = <<>>
    /\ ls_last = [r |-> 0, adv |-> <<>>, seq |-> 0]
    /\ ls_injected = 0
    /\ ls_http = <<>>
    /\ ls_calls = {}

\* No request: the value of the request variable outside a connection.
NoRequest == [method |-> "", resource |-> "", modified_since |-> 0]

\* No response text built (yet).
NoResponse == [status |-> "", has_length |-> FALSE, content_length |-> 0,
               body |-> <<>>, text |-> ""]

\* The request variables of a specification that serves no request.
HttpIdle ==
    /\ http_store = <<>>
    /\ http_before = <<>>
    /\ http_req = NoRequest
    /\ http_resp = NoResponse
    /\ http_pc = "idle"
    /\ http_served = 0

\* An endpoint at position pc with its sequence state and window.
Endpoint(pc, seq, ack, w) ==
    [pc |-> pc, seq_num |-> seq, ack_num |-> ack, window_size |-> w]

\* The handshake variables of a specification that runs no handshake.
HsIdle ==
    /\ hs_client = Endpoint("off", ISN, ISN, 1)
    /\ hs_server = Endpoint("off", ISN, ISN, 1)
    /\ hs_c2s = <<>>
    /\ hs_s2c = <<>>
    /\ hs_lost = 0
    /\ hop_copies = 0

\* A value that is no datagram.
Nothing == [nothing |-> TRUE]

\* The codec variables of a specification that converts nothing.
WireIdle ==
    /\ wire_task = "none"
    /\ wire_in = Nothing
    /\ wire_bytes = <<>>
    /\ wire_out = Nothing
    /\ wire_pc = "idle"

\* The path variables of a specification that follows no datagram through
\* a mesh.
PathIdle ==
    /\ path_mesh = [n |-> 0, kind |-> "line"]
    /\ path_tables = <<>>
    /\ path_at = 0
    /\ path_dgram = Nothing
    /\ path_visited = <<>>
    /\ path_out = Nothing
    /\ path_pc = "idle"

\* The connection variables of a specification that follows no connection
\* from start to end.
ConnIdle ==
    /\ cl_pc = "off"
    /\ cl_result = ""
    /\ sv_pc = "off"
    /\ sv_request = <<>>
    /\ hs_junk = 0

\* The state of both endpoints after a successful handshake, at the start of
\* send_request_segments (role "client") or of the send loop of process_request
\* (role "server", which receive_request_segments left without a socket timeout).
InitGBN ==
    /\ \E r \in {"client", "server"} : \E n \in 1..MaxSegs : \E w \in 1..MaxWindow :
         \E f \in (IF r = "client" THEN {FlagPSHACK} ELSE {FlagPSHACK, FlagFINACK}) :
            GbnStart(r, n, w, f)
    /\ RtIdle
    /\ FwIdle
    /\ LsIdle
    /\ HttpIdle
    /\ HsIdle
    /\ ConnIdle
    /\ WireIdle
    /\ PathIdle

NextGBN ==
    \/ SendSegment
    \/ ReceiveAck
    \/ Timeout
    \/ ReceiveSegment
    \/ IgnoreSegment
    \/ BudgetExpired

SpecGBN == InitGBN /\ [][NextGBN]_vars

\* Fairness: both endpoints keep running; the channel drops at most
\* MaxLoss datagrams; the client's 15 s budget may or may not run out.
FairGBN ==
    /\ InitGBN
    /\ [][NextGBN]_vars
    /\ WF_vars(SendSegment)
    /\ WF_vars(ReceiveAck)
    /\ WF_vars(Timeout)
    /\ WF_vars(ReceiveSegment)
    /\ WF_vars(IgnoreSegment)

\* ================================================================ routers
\* A destination of a routing table: a CIDR prefix A.B.C.D/P or a bare host
\* address (a router id N.N.N.N), as the strings of router.py read them.
Cidr(o, p) == [octets |-> o, cidr |-> TRUE, plen |-> p]
Host(o) == [octets |-> o, cidr |-> FALSE, plen |-> 0]

\* f'{router_id}.{router_id}.{router_id}.{router_id}'
RouterId(i) == Host(<<i, i, i, i>>)

\* "while time.time() - self.lsa_timer < 5" and time.sleep(1) of forward_lsa
QuiesceSecs == 5
ForwardDelay == 1

\* float('inf')
Infinity == 1000000
Plus(a, b) == IF a = Infinity THEN Infinity ELSE a + b

\* An LSDB is an ordered dict: a sequence of [adv, links], links a sequence of
\* <<neighbor, cost, interface>>.
LsdbHas(l, adv) == \E i \in 1..Len(l) : l[i].adv = adv
LsdbGet(l, adv) == l[CHOOSE i \in 1..Len(l) : l[i].adv = adv].links
LsdbPut(l, adv, links) ==
    IF LsdbHas(l, adv)
    THEN [i \in 1..Len(l) |-> IF l[i].adv = adv THEN [adv |-> adv, links |-> links]
                                ELSE l[i]]
    ELSE Append(l, [adv |-> adv, links |-> links])

\* ------------------------------------------------------------ graph.py
InSeq(x, q) == \E i \in 1..Len(q) : q[i] = x
AddNode(q, x) == IF InSeq(x, q) THEN q ELSE Append(q, x)

RECURSIVE AddEdges(_, _, _)
\* add_edge for every link of one LSDB entry: the keys of graph.nodes in order.
AddEdges(q, adv, links) ==
    IF links = <<>> THEN q
    ELSE IF InSeq(adv, q) /\ InSeq(links[1][1], q) THEN AddEdges(q, adv, Tail(links))
    ELSE AddEdges(AddNode(AddNode(q, adv), links[1][1]), adv, Tail(links))

RECURSIVE GraphNodes(_, _)
\* The keys of graph.nodes, in insertion order, after the loop over the LSDB.
GraphNodes(l, q) ==
    IF l = <<>> THEN q
    ELSE GraphNodes(Tail(l), AddEdges(q, l[1].adv, l[1].links))

\* graph.nodes[w]: the edges out of w.
GraphEdges(l, w) == IF LsdbHas(l, w) THEN LsdbGet(l, w) ELSE <<>>

\* --------------------------------------------------------- run_route_alg
RECURSIVE InitNeighbors(_, _)
\* "Update initial neighbors": D[neighbor] = cost, paths[neighbor] = [(neighbor, iface)].
InitNeighbors(st, links) ==
    IF links = <<>> THEN st
    ELSE LET nb == links[1][1]
             st2 == [st EXCEPT !.D[nb] = links[1][2],
                               !.paths[nb] = << <<nb, links[1][3]>> >>]
         IN InitNeighbors(st2, Tail(links))

\* A node picked without regard to its distance (the first unsettled one).
PickFirst(nodes, st) ==
    nodes[CHOOSE i \in 1..Len(nodes) :
            /\ nodes[i] \notin st.Np
            /\ \A j \in 1..(i - 1) : nodes[j] \in st.Np]

\* min((node for node in D if node not in N_prime), key=D.get): the first
\* unsettled node, in the order of the keys, of least distance.
PickMin(nodes, st) ==
    nodes[CHOOSE i \in 1..Len(nodes) :
            /\ nodes[i] \notin st.Np
            /\ \A j \in 1..Len(nodes) :
                  nodes[j] \notin st.Np =>
                      \/ st.D[nodes[i]] < st.D[nodes[j]]
                      \/ (st.D[nodes[i]] = st.D[nodes[j]] /\ i <= j)]

RECURSIVE Relax(_, _, _)
\* The loop over the edges of w.
Relax(st, w, edges) ==
    IF edges = <<>> THEN st
    ELSE LET nb == edges[1][1]
             nd == Plus(st.D[w], edges[1][2])
             st2 == IF nb \notin st.Np /\ nd < st.D[nb]
                    THEN [st EXCEPT !.D[nb] = nd,
                                    !.paths[nb] = Append(st.paths[w], <<nb, edges[1][3]>>)]
                    ELSE st
         IN Relax(st2, w, Tail(edges))

RECURSIVE DijkstraLoop(_, _, _)
\* while len(N_prime) < len(graph.nodes)
DijkstraLoop(l, nodes, st) ==
    IF Cardinality(st.Np) >= Len(nodes) THEN st
    ELSE LET w == PickMin(nodes, st)
             st2 == [st EXCEPT !.Np = st.Np \cup {w}]
         IN DijkstraLoop(l, nodes, Relax(st2, w, GraphEdges(l, w)))

\* The state of Dijkstra's algorithm when its loop ends.
Dijkstra(l, self) ==
    LET nodes == GraphNodes(l, <<>>)
        nodeSet == {nodes[i] : i \in 1..Len(nodes)}
        st0 == [D |-> [n \in nodeSet |-> IF n = self THEN 0 ELSE Infinity],
                paths |-> [n \in nodeSet |-> <<>>],
                Np |-> {self}]
    IN DijkstraLoop(l, nodes, InitNeighbors(st0, GraphEdges(l, self)))

NoInterface == "None"

\* The interface of the last edge of a path.
LastHop(path) == path[Len(path)][2]

\* paths[node][0][1]: the interface of the first edge of a path.
FirstHop(path) == path[1][2]

\* run_route_alg: the forwarding table, a sequence of [dest, iface, cost] in
\* the order of the keys of graph.nodes.
RunRouteAlg(l, self) ==
    LET nodes == GraphNodes(l, <<>>)
        st == Dijkstra(l, self)
    IN [i \in 1..Len(nodes) |->
          [dest |-> nodes[i],
           iface |-> IF st.paths[nodes[i]] # <<>> THEN FirstHop(st.paths[nodes[i]])
                     ELSE NoInterface,
           cost |-> st.D[nodes[i]]]]

TableHas(t, d) == \E i \in 1..Len(t) : t[i].dest = d
TableGet(t, d) == t[CHOOSE i \in 1..Len(t) : t[i].dest = d]

\* ------------------------------------------------ bootstrap configuration
\* The meshes: a line of n routers or a ring of three, router i with an interface to
\* each neighbour and one to its attached subnet, as in network_app.py.
Topologies ==
    {t \in [n : 2..MaxRouters, kind : {"line", "ring"}] : t.kind = "ring" => t.n = 3}

Left(t, i) == IF i > 1 THEN i - 1 ELSE IF t.kind = "ring" THEN t.n ELSE 0
Right(t, i) == IF i < t.n THEN i + 1 ELSE IF t.kind = "ring" THEN 1 ELSE 0

\* The cost both ends configure for the link between neighbours i and j.
LinkCost(i, j) ==
    LET a == Min(i, j)
        b == IF i < j THEN j ELSE i
    IN IF b = a + 1 THEN (IF a % 2 = 1 THEN 3 ELSE 5) ELSE 9

\* The address bound to interface k of router i, and of the host behind router i.
IfAddr(i, k) == <<i, k>>
HostAddr(i) == <<0, i>>

\* '127.N.0.0/24', the subnet attached to router i.
Subnet(i) == Cidr(<<127, 10 * i, 0, 0>>, 24)

\* router_interfaces: interface_name -> (local, peer), in the order of the dict.
RouterInterfaces(t, i) ==
    (IF Left(t, i) # 0
     THEN << [name |-> "Gi0/1", local |-> IfAddr(i, 1), peer |-> IfAddr(Left(t, i), 2)] >>
     ELSE <<>>)
    \o (IF Right(t, i) # 0
        THEN << [name |-> "Gi0/2", local |-> IfAddr(i, 2), peer |-> IfAddr(Right(t, i), 1)] >>
        ELSE <<>>)
    \o << [name |-> "Gi0/3", local |-> IfAddr(i, 3), peer |-> HostAddr(i)] >>

\* direct_connections: destination -> (cost, interface), as <<dest, cost, iface>>.
DirectConnections(t, i) ==
    << <<Subnet(i), 0, "Gi0/3">> >>
    \o (IF Left(t, i) # 0
        THEN << <<RouterId(Left(t, i)), LinkCost(i, Left(t, i)), "Gi0/1">> >>
        ELSE <<>>)
    \o (IF Right(t, i) # 0
        THEN << <<RouterId(Right(t, i)), LinkCost(i, Right(t, i)), "Gi0/2">> >>
        ELSE <<>>)

\* initialize_lsdb: the router's own entry.
InitializeLsdb(t, i) == << [adv |-> RouterId(i), links |-> DirectConnections(t, i)] >>

RECURSIVE LsdbOfAll(_, _, _, _)
\* The LSDB of router i once it holds the LSA of every router, taken in the
\* order of the router ids.
LsdbOfAll(t, i, j, l) ==
    IF j > t.n THEN l
    ELSE LsdbOfAll(t, i, j + 1,
                   IF j = i THEN l ELSE LsdbPut(l, RouterId(j), DirectConnections(t, j)))

CompleteLsdb(t, i) == LsdbOfAll(t, i, 1, InitializeLsdb(t, i))

\* ------------------------------------ SpecRoute: run_route_alg on an LSDB
\* The destinations of the LSDBs drawn for run_route_alg: three routers and
\* a subnet.
RtDests == <<RouterId(1), RouterId(2), RouterId(3), Subnet(3)>>
Absent == 0 - 1

\* The links an LSA of router a advertises when it gives destination
\* RtDests[k] the cost c[k] (Absent: no link), each on an interface of its own.
RtLinks(a, c) ==
    LET all == [k \in 1..Len(RtDests) |->
                  <<RtDests[k], c[k], IF k = 1 THEN "Gi0/1" ELSE IF k = 2 THEN "Gi0/2"
                                      ELSE IF k = 3 THEN "Gi0/3" ELSE "Gi0/4">>]
        Keep(e) == e[2] # Absent /\ e[1] # RouterId(a)
    IN SelectSeq(all, Keep)

\* The link lists an LSA of router a may carry: every other router at a cost
\* in 0..MaxCost or not at all, the subnet at cost 0 or not at all.
RtLinkChoices(a) ==
    {RtLinks(a, c) :
        c \in {x \in [1..Len(RtDests) -> {Absent} \cup (0..MaxCost)] :
                 x[a] = Absent /\ x[4] \in {Absent, 0}}}

\* The LSDB holding the given link lists of routers 1, 2, 3 in this order; an
\* LSA without a link is never stored.
RtLsdb(ls) ==
    LET all == [j \in 1..3 |-> [adv |-> RouterId(j), links |-> ls[j]]]
        Keep(e) == e.links # <<>>
    IN SelectSeq(all, Keep)

\* The LSDBs run_route_alg is run on: the drawn ones (router 1's own entry
\* is never empty), and those the meshes give after flooding.
RtInputs ==
    {[self |-> 1, lsdb |-> RtLsdb(<<l1, l2, l3>>)] :
        l1 \in RtLinkChoices(1) \ {<<>>}, l2 \in RtLinkChoices(2), l3 \in RtLinkChoices(3)}
    \cup UNION {{[self |-> i, lsdb |-> CompleteLsdb(t, i)] : i \in 1..t.n} :
                    t \in Topologies}

InitRoute ==
    /\ \E x \in RtInputs :
          /\ rt_self = x.self
          /\ rt_lsdb = x.lsdb
    /\ rt_table = <<>>
    /\ rt_pc = "ready"
    /\ GbnIdle
    /\ FwIdle
    /\ LsIdle
    /\ HttpIdle
    /\ HsIdle
    /\ ConnIdle
    /\ WireIdle
    /\ PathIdle

\* run_route_alg
RunRouteAlgStep ==
    /\ rt_pc = "ready"
    /\ rt_table' = RunRouteAlg(rt_lsdb, RouterId(rt_self))
    /\ rt_pc' = "done"
    /\ UNCHANGED <<rt_self, rt_lsdb>>
    /\ UNCHANGED otherThanRt

NextRoute == RunRouteAlgStep

SpecRoute == InitRoute /\ [][NextRoute]_vars

\* -------------------------------------------------- forward_datagram
\* Character index (from 0) of the 32-character binary string of an address.
Pow2(n) == IF n = 0 THEN 1 ELSE IF n = 1 THEN 2 ELSE IF n = 2 THEN 4
           ELSE IF n = 3 THEN 8 ELSE IF n = 4 THEN 16 ELSE IF n = 5 THEN 32
           ELSE IF n = 6 THEN 64 ELSE 128
BitAt(o, index) == (o[(index \div 8) + 1] \div Pow2(7 - (index % 8))) % 2

RECURSIVE CountBits(_, _, _, _)
\* The loop "for index in range(prefix_length)": the number of leading bits
\* of the network address equal to those of the destination, up to the first
\* difference.
CountBits(dst, net, plen, index) ==
    IF index >= plen THEN index
    ELSE IF BitAt(dst, index) = BitAt(net, index) THEN CountBits(dst, net, plen, index + 1)
    ELSE index

RECURSIVE MatchLoop(_, _, _, _, _)
\* The loop over forwarding_table.keys(): only a key with a '/' is looked at.
\* best is the index of longest_prefix (0: None), max is max_length.
MatchLoop(t, dst, k, best, max) ==
    IF k > Len(t) THEN best
    ELSE IF t[k].dest.cidr
    THEN LET matching_bits == CountBits(dst, t[k].dest.octets, t[k].dest.plen, 0)
         IN IF matching_bits > max
            THEN MatchLoop(t, dst, k + 1, k, matching_bits)
            ELSE MatchLoop(t, dst, k + 1, best, max)
    ELSE MatchLoop(t, dst, k + 1, best, max)

LongestPrefix(t, dst) == MatchLoop(t, dst, 1, 0, 0 - 1)

IfaceHas(ifs, name) == \E i \in 1..Len(ifs) : ifs[i].name = name
IfaceGet(ifs, name) == ifs[CHOOSE i \in 1..Len(ifs) : ifs[i].name = name]

\* "the datagram was intended for this router"
IntendedForRouter(ifs, d) == \E i \in 1..Len(ifs) : ifs[i].local = d.next_hop

\* forward_datagram: the sendto calls it makes, each [iface, to, dgram].  A
\* forwarding interface without a socket raises, and nothing is sent.
ForwardDatagram(ifs, t, d) ==
    IF ~IntendedForRouter(ifs, d) THEN <<>>
    ELSE LET longest_prefix == LongestPrefix(t, d.ip_daddr)
         IN IF longest_prefix = 0 THEN <<>>
            ELSE LET fwd_int == t[longest_prefix].iface
                 IN IF ~IfaceHas(ifs, fwd_int) THEN <<>>
                    ELSE << [iface |-> fwd_int,
                             to |-> IfaceGet(ifs, fwd_int).peer,
                             dgram |-> HTTPDatagram(d.ip_saddr, d.ip_daddr, d.seq_num,
                                                    d.ack_num, d.flags,
                                                    IfaceGet(ifs, fwd_int).peer, d.data)] >>

\* ------------------------------- SpecFwd: forward_datagram on one router
\* The router forwarding: router 1 of the three-router ring.
FwMesh == [n |-> 3, kind |-> "ring"]
FwInterfaces == RouterInterfaces(FwMesh, 1)

\* The keys the forwarding tables are drawn from, each with its interface:
\* prefixes, bare host addresses, and a subnet on an interface the router
\* does not have (as router 5 of network_app.py).
FwEntries ==
    { [dest |-> Cidr(<<127, 10, 0, 0>>, 24), iface |-> "Gi0/3", cost |-> 0],
      [dest |-> Cidr(<<127, 0, 0, 0>>, 8),   iface |-> "Gi0/1", cost |-> 3],
      [dest |-> Host(<<127, 10, 0, 1>>),     iface |-> "Gi0/2", cost |-> 3],
      [dest |-> Cidr(<<127, 20, 0, 0>>, 24), iface |-> "Gi0/2", cost |-> 3],
      [dest |-> Host(<<2, 2, 2, 2>>),        iface |-> "Gi0/2", cost |-> 3],
      [dest |-> Host(<<1, 1, 1, 1>>),        iface |-> NoInterface, cost |-> 0],
      [dest |-> Cidr(<<127, 30, 0, 0>>, 24), iface |-> "Gi0/4", cost |-> 0] }

FwTables ==
    UNION {{q \in [1..n -> FwEntries] : \A i \in 1..n : \A j \in 1..n : q[i] = q[j] => i = j} :
              n \in 0..MaxTableLen}

FwDestinations ==
    { <<127, 10, 0, 1>>, <<127, 20, 0, 5>>, <<127, 30, 0, 9>>, <<2, 2, 2, 2>>,
      <<10, 0, 0, 1>>, <<200, 1, 1, 1>> }

InitFwd ==
    /\ fw_table \in FwTables
    /\ \E dst \in FwDestinations : \E nh \in {IfAddr(1, 1), IfAddr(2, 1)} :
          fw_in = HTTPDatagram(<<127, 20, 0, 5>>, dst, ISN + 1, ISN + 1, FlagPSHACK, nh, 0)
    /\ fw_out = <<>>
    /\ fw_choice = 0
    /\ fw_pc = "ready"
    /\ GbnIdle
    /\ RtIdle
    /\ LsIdle
    /\ HttpIdle
    /\ HsIdle
    /\ ConnIdle
    /\ WireIdle
    /\ PathIdle

\* One datagram read in the forwarding loop of process_datagrams.
ForwardStep ==
    /\ fw_pc = "ready"
    /\ fw_out' = ForwardDatagram(FwInterfaces, fw_table, fw_in)
    /\ fw_choice' = IF IntendedForRouter(FwInterfaces, fw_in)
                    THEN LongestPrefix(fw_table, fw_in.ip_daddr) ELSE 0
    /\ fw_pc' = "done"
    /\ UNCHANGED <<fw_table, fw_in>>
    /\ UNCHANGED otherThanFw

NextFwd == ForwardStep

SpecFwd == InitFwd /\ [][NextFwd]_vars

\* ============================ SpecLSA: the flooding phase of the routers
\* '\r\n'.join(f'{neighbor}, {cost}, {interface}' ...): the text of an LSA, a
\* sequence of lines.
Digits == <<"0", "1", "2", "3", "4", "5", "6", "7", "8", "9">>

DigitOf(c) == (CHOOSE i \in 1..10 : Digits[i] = c) - 1

RECURSIVE DecimalText(_)
\* The decimal text of a number, as an f-string and inet_ntoa write it.
DecimalText(n) ==
    IF n < 10 THEN <<Digits[n + 1]>>
    ELSE DecimalText(n \div 10) \o <<Digits[(n % 10) + 1]>>

\* A cost read as zero whatever its text.
ZeroOfText(t) == 0

RECURSIVE IntOfText(_)
\* int(cost.strip()) on decimal text.
IntOfText(t) ==
    IF Len(t) = 1 THEN DigitOf(t[1])
    ELSE IntOfText(SubSeq(t, 1, Len(t) - 1)) * 10 + DigitOf(t[Len(t)])

\* f'{neighbor}, {cost}, {interface}': the cost goes on the wire as text.
LsaLine(link) ==
    [neighbor |-> link[1], cost |-> DecimalText(link[2]), interface |-> link[3]]
FormatLsa(links) == [k \in 1..Len(links) |-> LsaLine(links[k])]

\* lsa.split('\r\n') of an empty text gives one empty line, and the unpacking
\* "for neighbor, cost, interface in lsa" raises on a line without three
\* fields.
ParsesLsa(data) == data # <<>>
ParseLsa(data) ==
    [k \in 1..Len(data) |-> <<data[k].neighbor, IntOfText(data[k].cost), data[k].interface>>]

IfName(k) == IF k = 1 THEN "Gi0/1" ELSE IF k = 2 THEN "Gi0/2" ELSE "Gi0/3"

\* LSADatagram(source_ip=source, dest_ip='224.0.0.5', ...) sent to the peer of
\* interface f: the router owning the peer address finds it on the socket of
\* its interface of that address, or on its socket 'rec' bound to 0.0.0.0.
LSADatagram(f, adv, seq, data) ==
    [to |-> f.peer[1], iface |-> IfName(f.peer[2]), src |-> f.local,
     adv |-> adv, seq |-> seq, data |-> data]

\* The interfaces of a router whose peer is a router.
ToRouter(f) == f.peer[1] # 0

\* send_initial_lsa: one datagram per interface.
InitialLsas(t, r, l) ==
    {LSADatagram(RouterInterfaces(t, r)[k], RouterId(r), 0,
                 FormatLsa(LsdbGet(l, RouterId(r)))) :
        k \in {x \in 1..Len(RouterInterfaces(t, r)) : ToRouter(RouterInterfaces(t, r)[x])}}

\* A router that forwards no LSA.
FloodNone(ifs, lsa_int) == {}

\* A router that takes its own LSA as any other.
AnyAdvertiser(adv, r) == TRUE

\* "adv_rtr != self.router_id", in process_link_state_advertisement and in
\* forward_lsa.
NotOwn(adv, r) == adv # RouterId(r)

\* forward_lsa: the interfaces an LSA read on socket lsa_int is sent on.
FloodInterfaces(ifs, lsa_int) == {k \in 1..Len(ifs) : ifs[k].name # lsa_int}

ForwardLsa(t, r, m, lsa_int) ==
    LET ifs == RouterInterfaces(t, r)
    IN {LSADatagram(ifs[k], m.adv, m.seq, m.data) :
           k \in {x \in FloodInterfaces(ifs, lsa_int) :
                     ToRouter(ifs[x]) /\ NotOwn(m.adv, r)}}

\* sendto: each datagram joins the queue of the router it is sent to (a router
\* has one interface per neighbour, so at most one of them).
Deliver(queue, msgs) ==
    [r \in DOMAIN queue |->
        IF \E m \in msgs : m.to = r
        THEN Append(queue[r], CHOOSE m \in msgs : m.to = r)
        ELSE queue[r]]

\* "address[0] in [connection[1] for connection in self.router_interfaces.values()]"
FromPeer(t, r, m) ==
    \E k \in 1..Len(RouterInterfaces(t, r)) : RouterInterfaces(t, r)[k].peer = m.src

\* A test that also takes an LSA of the sequence number already recorded.
NewerOrSame(num, adv, seq) == adv \notin DOMAIN num \/ num[adv] <= seq

\* "adv_rtr not in self.router_lsa_num or self.router_lsa_num[adv_rtr] < lsa_seq_num"
Newer(num, adv, seq) == adv \notin DOMAIN num \/ num[adv] < seq

SetNum(num, adv, seq) ==
    [a \in DOMAIN num \cup {adv} |-> IF a = adv THEN seq ELSE num[a]]

Routers == 1..ls_topo.n
NoLsa == <<>>

\* run_app: router.send_initial_lsa(), router after router.
SendInitialLsa ==
    /\ ls_init < ls_topo.n
    /\ ls_init' = ls_init + 1
    /\ ls_queue' = Deliver(ls_queue, InitialLsas(ls_topo, ls_init + 1, ls_lsdb[ls_init + 1]))
    /\ UNCHANGED <<ls_topo, ls_sock, ls_now, ls_lsdb, ls_num, ls_timer, ls_busy, ls_pending,
                   ls_phase, ls_table, ls_accepted, ls_last, ls_injected>>
    /\ UNCHANGED otherThanLs

\* The socket a queued datagram is read from.
SocketOf(m) == IF ls_sock = "rec" THEN "rec" ELSE m.iface

\* recvfrom gives the datagrams of one socket in the order of their arrival.
FirstOfSocket(q, k) == \A j \in 1..(k - 1) : SocketOf(q[j]) # SocketOf(q[k])
Without(q, k) == [j \in 1..(Len(q) - 1) |-> IF j < k THEN q[j] ELSE q[j + 1]]

Awake(r) ==
    /\ ls_phase[r] = "flooding"
    /\ ls_busy[r] <= ls_now

\* One recvfrom of the flooding loop that returns a datagram, with
\* process_link_state_advertisement and update_lsdb, up to the sleep of forward_lsa.
ReceiveLsa(r, k) ==
    LET m == ls_queue[r][k]
    IN /\ Awake(r)
       /\ ls_pending[r] = NoLsa
       /\ ls_now - ls_timer[r] < QuiesceSecs
       /\ FirstOfSocket(ls_queue[r], k)
       /\ ls_queue' = [ls_queue EXCEPT ![r] = Without(@, k)]
       /\ ls_last' = [r |-> r, adv |-> m.adv, seq |-> m.seq]
       /\ IF FromPeer(ls_topo, r, m) /\ Newer(ls_num[r], m.adv, m.seq) /\ NotOwn(m.adv, r)
          THEN /\ ls_timer' = [ls_timer EXCEPT ![r] = ls_now]
               /\ ls_num' = [ls_num EXCEPT ![r] = SetNum(@, m.adv, m.seq)]
               /\ ls_accepted' = [ls_accepted EXCEPT ![r] = @ \cup {<<m.adv, m.seq>>}]
               /\ IF ParsesLsa(m.data)
                  THEN /\ ls_lsdb' = [ls_lsdb EXCEPT ![r] = LsdbPut(@, m.adv, ParseLsa(m.data))]
                       /\ ls_busy' = [ls_busy EXCEPT ![r] = ls_now + ForwardDelay]
                       /\ ls_pending' = [ls_pending EXCEPT ![r] = [lsa |-> m, lsa_int |-> SocketOf(m)]]
                  ELSE UNCHANGED <<ls_lsdb, ls_busy, ls_pending>>
          ELSE UNCHANGED <<ls_timer, ls_num, ls_accepted, ls_lsdb, ls_busy, ls_pending>>
       /\ UNCHANGED <<ls_topo, ls_sock, ls_now, ls_phase, ls_table, ls_init, ls_injected>>
       /\ UNCHANGED otherThanLs

ReceiveOnSocket == \E r \in Routers : \E k \in 1..Len(ls_queue[r]) : ReceiveLsa(r, k)

\* forward_lsa after its sleep.
ForwardLsaStep ==
    \E r \in Routers :
        /\ Awake(r)
        /\ ls_pending[r] # NoLsa
        /\ ls_queue' = Deliver(ls_queue, ForwardLsa(ls_topo, r, ls_pending[r].lsa,
                                                    ls_pending[r].lsa_int))
        /\ ls_pending' = [ls_pending EXCEPT ![r] = NoLsa]
        /\ UNCHANGED <<ls_topo, ls_sock, ls_now, ls_lsdb, ls_num, ls_timer, ls_busy, ls_phase,
                       ls_table, ls_init, ls_accepted, ls_last, ls_injected>>
        /\ UNCHANGED otherThanLs

\* The flooding loop ends and run_route_alg fills the forwarding table.
LeaveFlooding ==
    \E r \in Routers :
        /\ Awake(r)
        /\ ls_pending[r] = NoLsa
        /\ ls_now - ls_timer[r] >= QuiesceSecs
        /\ ls_phase' = [ls_phase EXCEPT ![r] = "forwarding"]
        /\ ls_table' = [ls_table EXCEPT ![r] = RunRouteAlg(ls_lsdb[r], RouterId(r))]
        /\ UNCHANGED <<ls_topo, ls_sock, ls_now, ls_lsdb, ls_num, ls_timer, ls_busy, ls_pending,
                       ls_init, ls_queue, ls_accepted, ls_last, ls_injected>>
        /\ UNCHANGED otherThanLs

\* A router that is not asleep forwards what it holds, reads what its sockets
\* hold and tests its loop condition before a second goes by.
Urgent(r) ==
    /\ Awake(r)
    /\ \/ ls_pending[r] # NoLsa
       \/ ls_now - ls_timer[r] >= QuiesceSecs
       \/ ls_queue[r] # <<>>
       \/ ls_http[r] # <<>>

Tick ==
    /\ ls_init = ls_topo.n
    /\ ls_now < MaxTime
    /\ \E r \in Routers : ls_phase[r] = "flooding"
    /\ \A r \in Routers : ~Urgent(r)
    /\ ls_now' = ls_now + 1
    /\ UNCHANGED <<ls_topo, ls_sock, ls_lsdb, ls_num, ls_timer, ls_busy, ls_pending, ls_phase,
                   ls_table, ls_init, ls_queue, ls_accepted, ls_last, ls_injected>>
    /\ UNCHANGED otherThanLs

\* NetworkApp.__init__ on the mesh t: every Router constructed.
MeshStart(t) ==
    /\ ls_topo = t
    /\ ls_sock \in {"interface", "rec"}
    /\ ls_now = 0
    /\ ls_lsdb = [r \in 1..t.n |-> InitializeLsdb(t, r)]
    /\ ls_num = [r \in 1..t.n |-> <<>>]
    /\ ls_timer = [r \in 1..t.n |-> 0]
    /\ ls_busy = [r \in 1..t.n |-> 0]
    /\ ls_pending = [r \in 1..t.n |-> NoLsa]
    /\ ls_phase = [r \in 1..t.n |-> "flooding"]
    /\ ls_table = [r \in 1..t.n |-> <<>>]
    /\ ls_init = 0
    /\ ls_queue = [r \in 1..t.n |-> <<>>]
    /\ ls_accepted = [r \in 1..t.n |-> {}]
    /\ ls_last = [r |-> 0, adv |-> <<>>, seq |-> 0]
    /\ ls_injected = 0
    /\ ls_http = [r \in 1..t.n |-> <<>>]
    /\ ls_calls = {}

InitLSA ==
    /\ \E t \in Topologies : MeshStart(t)
    /\ GbnIdle
    /\ RtIdle
    /\ FwIdle
    /\ HttpIdle
    /\ HsIdle
    /\ ConnIdle
    /\ WireIdle
    /\ PathIdle

NextLSA ==
    \/ SendInitialLsa
    \/ ReceiveOnSocket
    \/ ForwardLsaStep
    \/ LeaveFlooding
    \/ Tick

SpecLSA == InitLSA /\ [][NextLSA]_vars

\* The condition under which LeaveFlooding can be taken.
LeaveFloodingEnabled ==
    \E r \in Routers :
        Awake(r) /\ ls_pending[r] = NoLsa /\ ls_now - ls_timer[r] >= QuiesceSecs

\* Fairness: the routers run and time goes by: a step that can be taken is
\* taken (weak fairness of each action, that of LeaveFlooding written out).
FairLSA ==
    /\ SpecLSA
    /\ WF_vars(SendInitialLsa)
    /\ WF_vars(ReceiveOnSocket)
    /\ WF_vars(ForwardLsaStep)
    /\ ([]<>(~LeaveFloodingEnabled) \/ []<><<LeaveFlooding>>_vars)
    /\ WF_vars(Tick)

\* ------------- SpecLsaIn: two routers, and LSAs of any sequence number
\* A sender other than the routers' own flooding puts an LSA on the link of
\* router 1 to its neighbour, from the neighbour's address: it names any
\* advertising router and any sequence number, and carries that router's
\* links or an empty text.
InjectLsa ==
    \E k \in 1..Len(RouterInterfaces(ls_topo, 1)) :
    \E j \in Routers : \E seq \in 0..MaxSeq :
    \E data \in {<<>>, FormatLsa(DirectConnections(ls_topo, j))} :
        LET f == RouterInterfaces(ls_topo, 1)[k]
        IN /\ ToRouter(f)
           /\ ls_init = ls_topo.n
           /\ ls_injected < MaxInject
           /\ ls_phase[1] = "flooding"
           /\ ls_injected' = ls_injected + 1
           /\ ls_queue' = [ls_queue EXCEPT ![1] =
                             Append(@, [to |-> 1, iface |-> f.name, src |-> f.peer,
                                        adv |-> RouterId(j), seq |-> seq, data |-> data])]
           /\ UNCHANGED <<ls_topo, ls_sock, ls_now, ls_lsdb, ls_num, ls_timer, ls_busy,
                          ls_pending, ls_phase, ls_table, ls_init, ls_accepted, ls_last>>
           /\ UNCHANGED otherThanLs

InitLsaIn ==
    /\ MeshStart([n |-> 2, kind |-> "line"])
    /\ GbnIdle
    /\ RtIdle
    /\ FwIdle
    /\ HttpIdle
    /\ HsIdle
    /\ ConnIdle
    /\ WireIdle
    /\ PathIdle

NextLsaIn ==
    \/ NextLSA
    \/ InjectLsa

SpecLsaIn == InitLsaIn /\ [][NextLsaIn]_vars

\* ------------- SpecPhase: HTTP datagrams at routers that are flooding
\* A host behind router 1 sends an HTTP datagram for a host of the subnet of
\* router 2 to its gateway, at any time.
HttpArrives ==
    /\ ls_injected < MaxInject
    /\ ls_injected' = ls_injected + 1
    /\ ls_http' = [ls_http EXCEPT ![1] =
                     Append(@, HTTPDatagram(<<127, 10, 0, 1>>, <<127, 20, 0, 1>>, ISN + 1,
                                            ISN + 1, FlagPSHACK, IfAddr(1, 3), ls_injected))]
    /\ UNCHANGED <<ls_topo, ls_sock, ls_now, ls_lsdb, ls_num, ls_timer, ls_busy, ls_pending,
                   ls_phase, ls_table, ls_init, ls_queue, ls_accepted, ls_last, ls_calls>>
    /\ UNCHANGED otherThanPh

\* A router that calls forward_datagram in either loop.
InEitherLoop(phase) == TRUE

\* The loop of process_datagrams that calls forward_datagram.
InForwardingLoop(phase) == phase = "forwarding"

\* The datagrams of forward_datagram's sendto calls join the sockets of the
\* router that owns the address sent to; a host's datagrams leave the mesh.
DeliverHttp(http, out) ==
    [r \in DOMAIN http |->
        IF \E k \in 1..Len(out) : out[k].to[1] = r
        THEN Append(http[r], out[CHOOSE k \in 1..Len(out) : out[k].to[1] = r].dgram)
        ELSE http[r]]

\* One recvfrom of process_datagrams that returns an HTTP datagram: the
\* flooding loop tests ip_daddr against '224.0.0.5' and drops it, the
\* forwarding loop hands it to forward_datagram.
ReadHttp ==
    \E r \in Routers :
        /\ ls_http[r] # <<>>
        /\ ls_phase[r] = "flooding" => (Awake(r) /\ ls_pending[r] = NoLsa)
        /\ IF InForwardingLoop(ls_phase[r])
           THEN LET out == ForwardDatagram(RouterInterfaces(ls_topo, r), ls_table[r],
                                           Head(ls_http[r]))
                IN /\ ls_calls' = ls_calls \cup
                                     {[r |-> r, phase |-> ls_phase[r], table |-> ls_table[r],
                                       dgram |-> Head(ls_http[r]), out |-> out]}
                   /\ ls_http' = DeliverHttp([ls_http EXCEPT ![r] = Tail(@)], out)
           ELSE /\ ls_http' = [ls_http EXCEPT ![r] = Tail(@)]
                /\ UNCHANGED ls_calls
        /\ UNCHANGED lsVars
        /\ UNCHANGED otherThanPh

InitPhase ==
    /\ MeshStart([n |-> 2, kind |-> "line"])
    /\ GbnIdle
    /\ RtIdle
    /\ FwIdle
    /\ HttpIdle
    /\ HsIdle
    /\ ConnIdle
    /\ WireIdle
    /\ PathIdle

NextPhase ==
    \/ NextLSA
    \/ HttpArrives
    \/ ReadHttp

SpecPhase == InitPhase /\ [][NextPhase]_vars

\* ------------------------------------------------------- process_request
\* The resource the sample application requests, and the name a colliding
\* POST is stored under.
IndexName == "/index.html"
NewResourceName == "/new_resource.html"
Names == {IndexName, NewResourceName}

\* The methods a request line may carry; PUT stands for every method other
\* than GET and POST.
Methods == {"GET", "POST", "PUT"}

\* newRandomETag: three letters and three digits, drawn at random.
ETags == {"abc123", "xyz789"}

\* Texts are measured in segment payloads (frame_size - 60 bytes): the status
\* line and the header with the first bytes of the body fill the first
\* segment, every block of the body one further segment.
Blocks(n) == [i \in 1..n |-> i]

\* An entry of the store.
Entry(stamp, tag, data) ==
    [last_modified |-> stamp, file_size |-> Len(data), etag |-> tag, data |-> data]

\* The response texts process_request builds.
Ok(data) ==
    [status |-> "HTTP/1.1 200 OK", has_length |-> TRUE, content_length |-> Len(data),
     body |-> data, text |-> ""]

PostOk ==
    [status |-> "HTTP/1.1 200 OK", has_length |-> FALSE, content_length |-> 0,
     body |-> <<>>, text |-> "Content-Type: text/plain\r\nPOST request successfully received."]

NotModified ==
    [status |-> "HTTP/1.1 304 Not Modified", has_length |-> FALSE, content_length |-> 0,
     body |-> <<>>, text |-> ""]

BadRequest ==
    [status |-> "HTTP/1.1 400 Bad Request", has_length |-> FALSE, content_length |-> 0,
     body |-> <<>>, text |-> "Invalid Request"]

NotFound ==
    [status |-> "HTTP/1.1 404 Not Found", has_length |-> FALSE, content_length |-> 0,
     body |-> <<>>, text |-> "Resource Not Found"]

\* len(segments) of a response text.
SegmentCount(resp) == 1 + Len(resp.body)

\* The resource name after the collision test of a POST.
ResourceOf(store, req) ==
    IF req.resource \in DOMAIN store /\ req.method = "POST"
    THEN NewResourceName
    ELSE req.resource

\* post_content: request_lines[-1].  A request that left the receiving loop
\* ends with the empty line, so the last element of the split is empty.
PostContent == <<>>

\* self.resources[resource] = new_resource
StorePut(store, name, entry) ==
    [k \in DOMAIN store \cup {name} |-> IF k = name THEN entry ELSE store[k]]

\* A process_request that answers every request with 404 Not Found.
AnswerNotFound(store, req, now, tag) ==
    [raised |-> FALSE, data |-> NotFound, flags |-> FlagFINACK, store |-> store]

\* The outcome of the branches of process_request on a store and a request:
\* the response text and the flags the send loop starts with, the store
\* afterwards, or raised when a statement raises before the send loop
\* (resource_info is assigned only in the If-Modified-Since branch; a name
\* that is no key of the store raises KeyError there).
Respond(store, req, now, tag) ==
    LET resource == ResourceOf(store, req)
        known == resource \in DOMAIN store
    IN IF req.method # "GET" /\ req.method # "POST"
       THEN [raised |-> FALSE, data |-> BadRequest, flags |-> FlagFINACK, store |-> store]
       ELSE IF ~known /\ req.method = "GET"
       THEN [raised |-> FALSE, data |-> NotFound, flags |-> FlagFINACK, store |-> store]
       ELSE IF req.modified_since # 0
       THEN IF ~known
            THEN [raised |-> TRUE, data |-> NoResponse, flags |-> FlagFINACK,
                  store |-> store]
            ELSE IF store[resource].last_modified <= req.modified_since
            THEN [raised |-> FALSE, data |-> NotModified, flags |-> FlagFINACK,
                  store |-> store]
            ELSE [raised |-> FALSE, data |-> Ok(store[resource].data),
                  flags |-> FlagPSHACK, store |-> store]
       ELSE IF req.method = "POST"
       THEN [raised |-> FALSE, data |-> PostOk, flags |-> FlagPSHACK,
             store |-> StorePut(store, resource, Entry(now, tag, PostContent))]
       ELSE [raised |-> TRUE, data |-> NoResponse, flags |-> FlagFINACK, store |-> store]

\* process_request up to its send loop, whose iterations are SendSegment and
\* ReceiveAck with the server as the sender.  An exception raised before the
\* send loop ends run_server's thread with nothing sent.
ProcessRequest ==
    /\ http_pc = "process"
    /\ \E tag \in ETags :
         LET out == Respond(http_store, http_req, MaxStamp, tag) IN
         IF out.raised
         THEN /\ http_pc' = "raised"
              /\ UNCHANGED <<http_store, http_resp, nsegs, flags, spc, burstEnd>>
         ELSE /\ http_pc' = "sending"
              /\ http_store' = out.store
              /\ http_resp' = out.data
              /\ nsegs' = SegmentCount(out.data)
              /\ flags' = out.flags
              /\ spc' = "burst"
              /\ burstEnd' = Min(SegmentCount(out.data), window_size)
    /\ UNCHANGED <<http_before, http_req, http_served>>
    /\ UNCHANGED <<role, window_size, sock_timeout, base, seq_num, init_seq_num,
                   burstIdx, dataQ, ackQ, ack_num, reassembled, rflags, rpc, lost,
                   burstKind, sentLog, acksSent, lastSeq, lastAck, ackLost, lastTaken, burstSent>>
    /\ UNCHANGED otherThanHttp

\* The requests a client may send: any method, any name, with or without an
\* If-Modified-Since time (0: no such header).
Requests ==
    [method : Methods, resource : Names, modified_since : 0..MaxStamp]

\* The transfer variables once the handshake is over and the request has
\* left receive_request_segments: the client is in process_response_segments,
\* the server has not built its response yet.  The mesh loses nothing.
AwaitResponse(w) ==
    /\ role = "server"
    /\ nsegs = 0
    /\ window_size = w
    /\ sock_timeout = FALSE
    /\ base = 0
    /\ seq_num = ISN + 1
    /\ init_seq_num = ISN + 1
    /\ flags = FlagFINACK
    /\ spc = "idle"
    /\ burstIdx = 0
    /\ burstEnd = 0
    /\ dataQ = <<>>
    /\ ackQ = <<>>
    /\ ack_num = ISN + 1
    /\ reassembled = <<>>
    /\ rflags = FlagPSHACK
    /\ rpc = "recv"
    /\ lost = MaxLoss
    /\ burstKind = "first"
    /\ sentLog = {}
    /\ acksSent = 0
    /\ lastSeq = 0
    /\ lastAck = HTTPDatagram("", "", 0, 0, 0, "", "none")
    /\ ackLost = FALSE
    /\ lastTaken = 0
    /\ burstSent = <<>>

\* The next connection: run_server of a server started on the stored
\* resources.json, with a new client, once the connection before is over.
NextConnection ==
    /\ http_served < MaxRequests
    /\ http_pc = "raised" \/ (http_pc = "sending" /\ spc = "done")
    /\ rpc # "recv"
    /\ dataQ = <<>>
    /\ ackQ = <<>>
    /\ http_req' \in Requests
    /\ http_before' = http_store
    /\ http_resp' = NoResponse
    /\ http_pc' = "process"
    /\ http_served' = http_served + 1
    /\ nsegs' = 0
    /\ base' = 0
    /\ seq_num' = ISN + 1
    /\ init_seq_num' = ISN + 1
    /\ flags' = FlagFINACK
    /\ spc' = "idle"
    /\ burstIdx' = 0
    /\ burstEnd' = 0
    /\ ack_num' = ISN + 1
    /\ reassembled' = <<>>
    /\ rflags' = FlagPSHACK
    /\ rpc' = "recv"
    /\ burstKind' = "first"
    /\ sentLog' = {}
    /\ acksSent' = 0
    /\ lastSeq' = 0
    /\ lastAck' = HTTPDatagram("", "", 0, 0, 0, "", "none")
    /\ lastTaken' = 0
    /\ burstSent' = <<>>
    /\ UNCHANGED <<role, window_size, sock_timeout, dataQ, ackQ, lost, ackLost, http_store>>
    /\ UNCHANGED otherThanHttp

\* ------------------------------------- SpecHttp: requests served in turn
\* The store holds the sample application's resource, of any size up to
\* MaxSegs segments of response, last modified before the present.
InitHttp ==
    /\ \E n \in 0..(MaxSegs - 1) : \E t \in 1..(MaxStamp - 1) : \E tag \in ETags :
         http_store = [k \in {IndexName} |-> Entry(t, tag, Blocks(n))]
    /\ http_before = http_store
    /\ http_req \in Requests
    /\ http_resp = NoResponse
    /\ http_pc = "process"
    /\ http_served = 1
    /\ \E w \in 1..MaxWindow : AwaitResponse(w)
    /\ RtIdle
    /\ FwIdle
    /\ LsIdle
    /\ HsIdle
    /\ ConnIdle
    /\ WireIdle
    /\ PathIdle

NextHttp ==
    \/ ProcessRequest
    \/ SendSegment
    \/ ReceiveAck
    \/ ReceiveSegment
    \/ BudgetExpired
    \/ NextConnection

SpecHttp == InitHttp /\ [][NextHttp]_vars

\* Fairness: the server and the client keep running, the budget runs out.
FairHttp ==
    /\ SpecHttp
    /\ WF_vars(ProcessRequest)
    /\ WF_vars(SendSegment)
    /\ WF_vars(ReceiveAck)
    /\ WF_vars(ReceiveSegment)
    /\ WF_vars(BudgetExpired)

\* ------------------------------------------------- three-way handshake
\* HTTPDatagram with the window_size field, which the handshake reads.
HandshakeDatagram(src, dst, seq, ack, fl, w, nh, data) ==
    [ip_saddr |-> src, ip_daddr |-> dst, seq_num |-> seq, ack_num |-> ack,
     flags |-> fl, window_size |-> w, next_hop |-> nh, data |-> data]

\* sendto through the mesh during the handshake: delivered, or dropped.
HsTransmit(q, d, q2, lost2) ==
    \/ /\ q2 = Append(q, Routed(d))
       /\ lost2 = hs_lost
    \/ /\ hs_lost < MaxLoss
       /\ q2 = q
       /\ lost2 = hs_lost + 1

\* initiate_handshake, step 1: send SYN.
ClientSendSyn ==
    /\ hs_client.pc = "start"
    /\ LET syn == HandshakeDatagram(ClientIP, ServerIP, hs_client.seq_num,
                                    hs_client.ack_num, FlagSYN, hs_client.window_size,
                                    ClientGateway, "SYN")
       IN HsTransmit(hs_c2s, syn, hs_c2s', hs_lost')
    /\ hs_client' = [hs_client EXCEPT !.pc = "syn_sent", !.seq_num = @ + 1]
    /\ UNCHANGED <<hs_server, hs_s2c, hop_copies>>
    /\ UNCHANGED otherThanHs

\* A test for a SYN/ACK that reads the flags only.
IsAnySynAck(d) == d.flags = FlagSYNACK

\* The test of initiate_handshake on a received frame.
IsSynAck(d) == d.flags = FlagSYNACK /\ d.next_hop = ClientIP

\* initiate_handshake, steps 2 and 3: a frame received while waiting for the
\* SYN/ACK; on the SYN/ACK the client sends its ACK and returns True.
ClientReceive ==
    /\ hs_client.pc = "syn_sent"
    /\ hs_s2c # <<>>
    /\ LET d == Head(hs_s2c) IN
       IF IsSynAck(d)
       THEN LET w == Min(hs_client.window_size, d.window_size)
                ack == HandshakeDatagram(ClientIP, ServerIP, hs_client.seq_num,
                                         d.seq_num + 1, FlagACK, w, ClientGateway, "ACK")
            IN /\ hs_client' = [hs_client EXCEPT !.pc = "established",
                                                 !.ack_num = d.seq_num + 1,
                                                 !.window_size = w]
               /\ HsTransmit(hs_c2s, ack, hs_c2s', hs_lost')
       ELSE UNCHANGED <<hs_client, hs_c2s, hs_lost>>
    /\ hs_s2c' = Tail(hs_s2c)
    /\ UNCHANGED <<hs_server, hop_copies>>
    /\ UNCHANGED otherThanHs

\* socket.timeout while waiting for the SYN/ACK: nothing is in flight any
\* more; initiate_handshake returns False.
ClientTimeout ==
    /\ hs_client.pc = "syn_sent"
    /\ hs_s2c = <<>>
    /\ hs_c2s = <<>>
    /\ hs_client' = [hs_client EXCEPT !.pc = "failed"]
    /\ UNCHANGED <<hs_server, hs_c2s, hs_s2c, hs_lost, hop_copies>>
    /\ UNCHANGED otherThanHs

\* The tests of accept_handshake on a received frame.
IsSyn(d) == d.flags = FlagSYN /\ d.next_hop = ServerIP

IsHandshakeAck(d) ==
    /\ d.flags = FlagACK
    /\ d.ack_num = hs_server.seq_num
    /\ d.next_hop = ServerIP

\* accept_handshake, steps 1 and 2: a frame received while waiting for the
\* SYN; on the SYN the server sends its SYN/ACK.
ServerReceiveSyn ==
    /\ hs_server.pc = "listen"
    /\ hs_c2s # <<>>
    /\ LET d == Head(hs_c2s) IN
       IF IsSyn(d)
       THEN LET w == Min(hs_server.window_size, d.window_size)
                synack == HandshakeDatagram(ServerIP, d.ip_saddr, hs_server.seq_num,
                                            d.seq_num + 1, FlagSYNACK, w, ServerGateway,
                                            "SYN-ACK")
            IN /\ hs_server' = [hs_server EXCEPT !.pc = "syn_rcvd",
                                                 !.seq_num = @ + 1,
                                                 !.ack_num = d.seq_num + 1,
                                                 !.window_size = w]
               /\ HsTransmit(hs_s2c, synack, hs_s2c', hs_lost')
       ELSE UNCHANGED <<hs_server, hs_s2c, hs_lost>>
    /\ hs_c2s' = Tail(hs_c2s)
    /\ UNCHANGED <<hs_client, hop_copies>>
    /\ UNCHANGED otherThanHs

\* accept_handshake, step 3: a frame received while waiting for the ACK.
ServerReceiveAck ==
    /\ hs_server.pc = "syn_rcvd"
    /\ hs_c2s # <<>>
    /\ hs_server' = IF IsHandshakeAck(Head(hs_c2s))
                    THEN [hs_server EXCEPT !.pc = "established"]
                    ELSE hs_server
    /\ hs_c2s' = Tail(hs_c2s)
    /\ UNCHANGED <<hs_client, hs_s2c, hs_lost, hop_copies>>
    /\ UNCHANGED otherThanHs

\* socket.timeout while waiting for the ACK: reset_connection, return False.
ServerTimeout ==
    /\ hs_server.pc = "syn_rcvd"
    /\ hs_c2s = <<>>
    /\ hs_s2c = <<>>
    /\ hs_client.pc # "start"
    /\ hs_server' = [hs_server EXCEPT !.pc = "reset", !.seq_num = 0, !.ack_num = 0]
    /\ UNCHANGED <<hs_client, hs_c2s, hs_s2c, hs_lost, hop_copies>>
    /\ UNCHANGED otherThanHs

\* ------------------------------------------------------------ hop copies
\* Every hop sends the datagram with the IP destination of the endpoint, so
\* on the loopback the endpoint's raw socket also gets the datagram as the
\* sender or a router before the last one sent it: the same fields, next_hop
\* the address of a router interface.  The copy arrives before the datagram
\* of the last hop.
HopAddresses == {ClientGateway, ServerGateway}

HopCopy(q) == {<<[Head(q) EXCEPT !.next_hop = nh]>> \o q : nh \in HopAddresses}

HopCopyData ==
    /\ hop_copies < MaxCopies
    /\ dataQ # <<>>
    /\ Head(dataQ).next_hop = ReceiverIP
    /\ dataQ' \in HopCopy(dataQ)
    /\ hop_copies' = hop_copies + 1
    /\ UNCHANGED <<role, nsegs, window_size, sock_timeout, base, seq_num, init_seq_num,
                   flags, spc, burstIdx, burstEnd, ackQ, ack_num, reassembled, rflags,
                   rpc, lost, burstKind, sentLog, acksSent, lastSeq, lastAck, ackLost,
                   lastTaken, burstSent>>
    /\ UNCHANGED <<hs_client, hs_server, hs_c2s, hs_s2c, hs_lost>>
    /\ UNCHANGED <<rtVars, fwVars, lsVars, httpVars, phVars, connVars, wireVars, pathVars>>

HopCopyAck ==
    /\ hop_copies < MaxCopies
    /\ ackQ # <<>>
    /\ Head(ackQ).next_hop = SenderIP
    /\ ackQ' \in HopCopy(ackQ)
    /\ hop_copies' = hop_copies + 1
    /\ UNCHANGED <<role, nsegs, window_size, sock_timeout, base, seq_num, init_seq_num,
                   flags, spc, burstIdx, burstEnd, dataQ, ack_num, reassembled, rflags,
                   rpc, lost, burstKind, sentLog, acksSent, lastSeq, lastAck, ackLost,
                   lastTaken, burstSent>>
    /\ UNCHANGED <<hs_client, hs_server, hs_c2s, hs_s2c, hs_lost>>
    /\ UNCHANGED <<rtVars, fwVars, lsVars, httpVars, phVars, connVars, wireVars, pathVars>>

HopCopyToServer ==
    /\ hop_copies < MaxCopies
    /\ hs_c2s # <<>>
    /\ Head(hs_c2s).next_hop = ServerIP
    /\ hs_c2s' \in HopCopy(hs_c2s)
    /\ hop_copies' = hop_copies + 1
    /\ UNCHANGED <<hs_client, hs_server, hs_s2c, hs_lost>>
    /\ UNCHANGED otherThanHs

HopCopyToClient ==
    /\ hop_copies < MaxCopies
    /\ hs_s2c # <<>>
    /\ Head(hs_s2c).next_hop = ClientIP
    /\ hs_s2c' \in HopCopy(hs_s2c)
    /\ hop_copies' = hop_copies + 1
    /\ UNCHANGED <<hs_client, hs_server, hs_c2s, hs_lost>>
    /\ UNCHANGED otherThanHs

\* --------------------- SpecGate: every place a received frame is tested
\* The transfer variables once a transfer is over.
GbnOver ==
    /\ role = "client"
    /\ nsegs = 1
    /\ window_size = 1
    /\ sock_timeout = TRUE
    /\ base = 1
    /\ seq_num = ISN + 2
    /\ init_seq_num = ISN + 1
    /\ flags = FlagFINPSHACK
    /\ spc = "done"
    /\ burstIdx = 1
    /\ burstEnd = 1
    /\ dataQ = <<>>
    /\ ackQ = <<>>
    /\ ack_num = ISN + 2
    /\ reassembled = <<0>>
    /\ rflags = FlagPSHACK
    /\ rpc = "fin"
    /\ lost = 0
    /\ burstKind = "first"
    /\ sentLog = {<<0, ISN + 1, FlagFINPSHACK, "first">>}
    /\ acksSent = 1
    /\ lastSeq = ISN + 1
    /\ lastAck = HTTPDatagram(ServerIP, ClientIP, ISN + 1, ISN + 2, FlagACK,
                              ServerGateway, "ACK")
    /\ ackLost = FALSE
    /\ lastTaken = FlagFINPSHACK
    /\ burstSent = <<0>>

\* Client() and Server() constructed with windows cw and sw; the server is in
\* accept_handshake, the client about to call initiate_handshake.
HsStart(cw, sw) ==
    /\ hs_client = Endpoint("start", ISN, ISN, cw)
    /\ hs_server = Endpoint("listen", ISN, ISN, sw)
    /\ hs_c2s = <<>>
    /\ hs_s2c = <<>>
    /\ hs_lost = 0
    /\ hop_copies = 0

\* Three starts: a handshake, a transfer in either direction, and a router
\* with a datagram read in its forwarding loop.
InitGate ==
    /\ \/ /\ \E cw \in 1..MaxWindow : \E sw \in 1..MaxWindow : HsStart(cw, sw)
          /\ GbnOver
          /\ FwIdle
       \/ /\ HsIdle
          /\ \E r \in {"client", "server"} : \E n \in 1..MaxSegs : \E w \in 1..MaxWindow :
               \E f \in (IF r = "client" THEN {FlagPSHACK} ELSE {FlagPSHACK, FlagFINACK}) :
                  GbnStart(r, n, w, f)
          /\ FwIdle
       \/ /\ HsIdle
          /\ GbnOver
          /\ fw_table \in FwTables
          /\ \E dst \in FwDestinations : \E nh \in {IfAddr(1, 1), IfAddr(2, 1)} :
               fw_in = HTTPDatagram(<<127, 20, 0, 5>>, dst, ISN + 1, ISN + 1,
                                    FlagPSHACK, nh, 0)
          /\ fw_out = <<>>
          /\ fw_choice = 0
          /\ fw_pc = "ready"
    /\ RtIdle
    /\ LsIdle
    /\ HttpIdle
    /\ ConnIdle
    /\ WireIdle
    /\ PathIdle

NextGate ==
    \/ ClientSendSyn
    \/ ClientReceive
    \/ ClientTimeout
    \/ ServerReceiveSyn
    \/ ServerReceiveAck
    \/ ServerTimeout
    \/ HopCopyToServer
    \/ HopCopyToClient
    \/ SendSegment
    \/ ReceiveAck
    \/ Timeout
    \/ ReceiveSegment
    \/ IgnoreSegment
    \/ BudgetExpired
    \/ HopCopyData
    \/ HopCopyAck
    \/ ForwardStep

SpecGate == InitGate /\ [][NextGate]_vars

\* ----------------- SpecConn: one connection, request_resource and run_server
\* "Failed to connect to the server."
FailureText == "Failed to connect to the server."

\* A caller that goes on whatever the handshake returned.
ConnectedOrNot(ep) == ep.pc # "start" /\ ep.pc # "listen"

\* The value of accept_handshake and of initiate_handshake: True.
Connected(ep) == ep.pc = "established"

\* The datagrams other than the server's SYN/ACK that may reach the client's
\* socket: an ACK or a data segment for the client, and a SYN/ACK as an
\* earlier hop sent it.
OtherDatagrams ==
    {HandshakeDatagram(ServerIP, ClientIP, ISN, ISN + 1, FlagACK, 1, ClientIP, "ACK"),
     HandshakeDatagram(ServerIP, ClientIP, ISN + 1, ISN + 1, FlagPSHACK, 1, ClientIP, "data"),
     HandshakeDatagram(ServerIP, ClientIP, ISN, ISN + 1, FlagSYNACK, 1, ServerGateway,
                       "SYN-ACK")}

\* Another datagram reaches the client's socket while it waits for the SYN/ACK.
OtherToClient ==
    /\ hs_junk < MaxInject
    /\ hs_client.pc = "syn_sent"
    /\ \E d \in OtherDatagrams : hs_s2c' = Append(hs_s2c, d)
    /\ hs_junk' = hs_junk + 1
    /\ UNCHANGED <<hs_client, hs_server, hs_c2s, hs_lost, hop_copies>>
    /\ UNCHANGED <<cl_pc, cl_result, sv_pc, sv_request>>
    /\ UNCHANGED <<gbnVars, httpVars>>
    /\ UNCHANGED otherThanConn

\* request_resource when initiate_handshake returned False: the failure
\* text is the response, close_socket is called, the text is returned.
ReportFailure ==
    /\ cl_pc = "handshake"
    /\ hs_client.pc = "failed"
    /\ cl_result' = FailureText
    /\ cl_pc' = "closed"
    /\ UNCHANGED <<sv_pc, sv_request, hs_junk>>
    /\ UNCHANGED <<gbnVars, httpVars, hsVars>>
    /\ UNCHANGED otherThanConn

\* request_resource when initiate_handshake returned True: build_request and
\* the start of send_request_segments.
StartRequest ==
    /\ cl_pc = "handshake"
    /\ Connected(hs_client)
    /\ cl_pc' = "sending"
    /\ window_size' = hs_client.window_size
    /\ seq_num' = hs_client.seq_num
    /\ init_seq_num' = hs_client.seq_num
    /\ spc' = "burst"
    /\ burstIdx' = 0
    /\ burstEnd' = Min(nsegs, hs_client.window_size)
    /\ UNCHANGED <<role, nsegs, sock_timeout, base, flags, dataQ, ackQ, ack_num,
                   reassembled, rflags, rpc, lost, burstKind, sentLog, acksSent, lastSeq,
                   lastAck, ackLost, lastTaken, burstSent>>
    /\ UNCHANGED <<cl_result, sv_pc, sv_request, hs_junk>>
    /\ UNCHANGED <<httpVars, hsVars>>
    /\ UNCHANGED otherThanConn

\* run_server when accept_handshake returned True: the start of
\* receive_request_segments.
StartReceiving ==
    /\ sv_pc = "handshake"
    /\ Connected(hs_server)
    /\ sv_pc' = "receiving"
    /\ ack_num' = hs_server.ack_num
    /\ rpc' = "recv"
    /\ UNCHANGED <<role, nsegs, window_size, sock_timeout, base, seq_num, init_seq_num,
                   flags, spc, burstIdx, burstEnd, dataQ, ackQ, reassembled, rflags, lost,
                   burstKind, sentLog, acksSent, lastSeq, lastAck, ackLost, lastTaken, burstSent>>
    /\ UNCHANGED <<cl_pc, cl_result, sv_request, hs_junk>>
    /\ UNCHANGED <<httpVars, hsVars>>
    /\ UNCHANGED otherThanConn

\* run_server when accept_handshake returned False: reset_connection, return.
ServerGivesUp ==
    /\ sv_pc = "handshake"
    /\ hs_server.pc = "reset"
    /\ sv_pc' = "closed"
    /\ UNCHANGED <<cl_pc, cl_result, sv_request, hs_junk>>
    /\ UNCHANGED <<gbnVars, httpVars, hsVars>>
    /\ UNCHANGED otherThanConn

\* receive_request_segments returns the request and run_server calls
\* process_request, while send_request_segments has returned on the last ACK
\* and the client is in process_response_segments.  The server's ACKs are
\* ahead of its response on the way to the client, so the client has read
\* them when the first response segment arrives.
StartResponse ==
    /\ sv_pc = "receiving"
    /\ rpc = "fin"
    /\ cl_pc = "sending"
    /\ spc = "done"
    /\ dataQ = <<>>
    /\ ackQ = <<>>
    /\ sv_pc' = "processing"
    /\ sv_request' = reassembled
    /\ cl_pc' = "receiving"
    /\ http_pc' = "process"
    /\ role' = "server"
    /\ nsegs' = 0
    /\ window_size' = hs_server.window_size
    /\ sock_timeout' = FALSE
    /\ base' = 0
    /\ seq_num' = hs_server.seq_num
    /\ init_seq_num' = hs_server.seq_num
    /\ flags' = FlagFINACK
    /\ spc' = "idle"
    /\ burstIdx' = 0
    /\ burstEnd' = 0
    /\ ack_num' = hs_client.ack_num
    /\ reassembled' = <<>>
    /\ rflags' = FlagPSHACK
    /\ rpc' = "recv"
    /\ burstKind' = "first"
    /\ sentLog' = {}
    /\ acksSent' = 0
    /\ lastSeq' = 0
    /\ lastAck' = HTTPDatagram("", "", 0, 0, 0, "", "none")
    /\ lastTaken' = 0
    /\ burstSent' = <<>>
    /\ UNCHANGED <<dataQ, ackQ, lost, ackLost>>
    /\ UNCHANGED <<http_store, http_before, http_req, http_resp, http_served>>
    /\ UNCHANGED <<cl_result, hs_junk>>
    /\ UNCHANGED hsVars
    /\ UNCHANGED otherThanConn

\* The same when the ACK of the last request segment was lost: the client
\* stays in send_request_segments, whose ACK loop reads the response segments
\* and takes none of them for an ACK.
StartResponseUnheard ==
    /\ sv_pc = "receiving"
    /\ rpc = "fin"
    /\ cl_pc = "sending"
    /\ spc = "wait"
    /\ dataQ = <<>>
    /\ ackQ = <<>>
    /\ sv_pc' = "processing"
    /\ sv_request' = reassembled
    /\ UNCHANGED <<cl_pc, cl_result, hs_junk>>
    /\ UNCHANGED <<gbnVars, httpVars, hsVars>>
    /\ UNCHANGED otherThanConn

\* process_response_segments returns; request_resource prints the response,
\* calls close_socket and returns the response.
ClientDone ==
    /\ cl_pc = "receiving"
    /\ rpc \in {"fin", "budget"}
    /\ cl_pc' = "closed"
    /\ cl_result' = "response"
    /\ UNCHANGED <<sv_pc, sv_request, hs_junk>>
    /\ UNCHANGED <<gbnVars, httpVars, hsVars>>
    /\ UNCHANGED otherThanConn

\* process_request returns (or raises): run_server ends.
ServerDone ==
    /\ sv_pc = "processing"
    /\ role = "server"
    /\ http_pc = "raised" \/ (http_pc = "sending" /\ spc = "done")
    /\ sv_pc' = "closed"
    /\ UNCHANGED <<cl_pc, cl_result, sv_request, hs_junk>>
    /\ UNCHANGED <<gbnVars, httpVars, hsVars>>
    /\ UNCHANGED otherThanConn

\* The transfer variables before send_request_segments is called, for a
\* request of n segments; the mesh may lose one datagram of the transfers.
GbnNotStarted(n) ==
    /\ role = "client"
    /\ nsegs = n
    /\ window_size = 1
    /\ sock_timeout = TRUE
    /\ base = 0
    /\ seq_num = ISN
    /\ init_seq_num = ISN
    /\ flags = FlagPSHACK
    /\ spc = "idle"
    /\ burstIdx = 0
    /\ burstEnd = 0
    /\ dataQ = <<>>
    /\ ackQ = <<>>
    /\ ack_num = ISN
    /\ reassembled = <<>>
    /\ rflags = FlagPSHACK
    /\ rpc = "idle"
    /\ lost = MaxLoss - 1
    /\ burstKind = "first"
    /\ sentLog = {}
    /\ acksSent = 0
    /\ lastSeq = 0
    /\ lastAck = HTTPDatagram("", "", 0, 0, 0, "", "none")
    /\ ackLost = FALSE
    /\ lastTaken = 0
    /\ burstSent = <<>>

\* Server() and Client() as NetworkApp makes them, the store with the sample
\* resource, and the request the client is going to send: a GET of the
\* resource, with or without an If-Modified-Since time.
InitConn ==
    /\ \E cw \in 1..MaxWindow : \E sw \in 1..MaxWindow : HsStart(cw, sw)
    /\ \E n \in 1..MaxReqSegs : GbnNotStarted(n)
    /\ \E n \in 0..1 : http_store = [k \in {IndexName} |-> Entry(1, "abc123", Blocks(n))]
    /\ http_before = http_store
    /\ \E t \in 0..1 : http_req = [method |-> "GET", resource |-> IndexName,
                                   modified_since |-> t]
    /\ http_resp = NoResponse
    /\ http_pc = "idle"
    /\ http_served = 1
    /\ cl_pc = "handshake"
    /\ cl_result = ""
    /\ sv_pc = "handshake"
    /\ sv_request = <<>>
    /\ hs_junk = 0
    /\ RtIdle
    /\ FwIdle
    /\ LsIdle
    /\ WireIdle
    /\ PathIdle

NextConn ==
    \/ ClientSendSyn
    \/ ClientReceive
    \/ ClientTimeout
    \/ ServerReceiveSyn
    \/ ServerReceiveAck
    \/ ServerTimeout
    \/ OtherToClient
    \/ ReportFailure
    \/ StartRequest
    \/ StartReceiving
    \/ ServerGivesUp
    \/ SendSegment
    \/ ReceiveAck
    \/ Timeout
    \/ ReceiveSegment
    \/ IgnoreSegment
    \/ StartResponse
    \/ StartResponseUnheard
    \/ ProcessRequest
    \/ BudgetExpired
    \/ ClientDone
    \/ ServerDone

SpecConn == InitConn /\ [][NextConn]_vars

\* Fairness: both endpoints keep running and their sockets time out.
FairConn ==
    /\ SpecConn
    /\ WF_vars(ClientSendSyn)
    /\ WF_vars(ClientReceive)
    /\ WF_vars(ClientTimeout)
    /\ WF_vars(ServerReceiveSyn)
    /\ WF_vars(ServerReceiveAck)
    /\ WF_vars(ServerTimeout)
    /\ WF_vars(ReportFailure)
    /\ WF_vars(StartRequest)

\* ------------------------------------------------- pdu.py: the datagrams
\* Text (an address, a payload) is a sequence: an address of characters, a
\* payload of code points; bytes are a sequence of 0..255.
\* socket.inet_ntoa: four octets to dotted-quad text.
inet_ntoa(b) ==
    DecimalText(b[1]) \o <<".">> \o DecimalText(b[2]) \o <<".">>
       \o DecimalText(b[3]) \o <<".">> \o DecimalText(b[4])

RECURSIVE AtonLoop(_, _, _, _)
AtonLoop(t, i, cur, acc) ==
    IF i > Len(t) THEN Append(acc, cur)
    ELSE IF t[i] = "." THEN AtonLoop(t, i + 1, 0, Append(acc, cur))
    ELSE AtonLoop(t, i + 1, cur * 10 + DigitOf(t[i]), acc)

\* socket.inet_aton on dotted-quad text: the four octets.
inet_aton(t) == AtonLoop(t, 1, 0, <<>>)

\* struct.pack and struct.unpack, network byte order: 'H' and 'L'.
U16(n) == <<n \div 256, n % 256>>
U32(n) == <<n \div 16777216, (n \div 65536) % 256, (n \div 256) % 256, n % 256>>
G16(b, off) == b[off + 1] * 256 + b[off + 2]
G32(b, off) ==
    b[off + 1] * 16777216 + b[off + 2] * 65536 + b[off + 3] * 256 + b[off + 4]

\* data[lo:hi]
Slice(b, lo, hi) == SubSeq(b, lo + 1, IF hi < Len(b) THEN hi ELSE Len(b))

\* A low half that is the whole octet.
WholeByte(x) == x

\* (x >> 4) & 0xF and x & 0xF
HighNibble(x) == (x \div 16) % 16
LowNibble(x) == x % 16

\* The UTF-8 bytes of one code point.
Utf8Char(c) ==
    IF c < 128 THEN <<c>>
    ELSE IF c < 2048 THEN <<192 + (c \div 64), 128 + (c % 64)>>
    ELSE IF c < 65536
    THEN <<224 + (c \div 4096), 128 + ((c \div 64) % 64), 128 + (c % 64)>>
    ELSE <<240 + (c \div 262144), 128 + ((c \div 4096) % 64), 128 + ((c \div 64) % 64),
           128 + (c % 64)>>

RECURSIVE EncodeLoop(_)
EncodeLoop(s) == IF s = <<>> THEN <<>> ELSE Utf8Char(Head(s)) \o EncodeLoop(Tail(s))

\* str.encode(): UTF-8; text of code points below 128 is its own encoding.
StrEncode(s) == IF \A i \in 1..Len(s) : s[i] < 128 THEN s ELSE EncodeLoop(s)

\* The number of bytes a UTF-8 sequence starting with h has (0: none starts so).
Utf8Width(h) ==
    IF h < 128 THEN 1
    ELSE IF h >= 192 /\ h < 224 THEN 2
    ELSE IF h >= 224 /\ h < 240 THEN 3
    ELSE IF h >= 240 /\ h < 248 THEN 4
    ELSE 0

Utf8Point(b, n) ==
    IF n = 1 THEN b[1]
    ELSE IF n = 2 THEN (b[1] - 192) * 64 + (b[2] - 128)
    ELSE IF n = 3 THEN (b[1] - 224) * 4096 + (b[2] - 128) * 64 + (b[3] - 128)
    ELSE (b[1] - 240) * 262144 + (b[2] - 128) * 4096 + (b[3] - 128) * 64 + (b[4] - 128)

RECURSIVE DecodeLoop(_)
DecodeLoop(b) ==
    IF b = <<>> THEN [ok |-> TRUE, text |-> <<>>]
    ELSE LET n == Utf8Width(b[1])
         IN IF n = 0 \/ Len(b) < n \/ (\E i \in 2..n : b[i] < 128 \/ b[i] > 191)
            THEN [ok |-> FALSE, text |-> <<>>]
            ELSE LET rest == DecodeLoop(SubSeq(b, n + 1, Len(b)))
                 IN [ok |-> rest.ok, text |-> <<Utf8Point(b, n)>> \o rest.text]

\* bytes.decode(): UTF-8, raising UnicodeDecodeError on bytes that are none.
BytesDecode(b) ==
    IF \A i \in 1..Len(b) : b[i] < 128 THEN [ok |-> TRUE, text |-> b] ELSE DecodeLoop(b)

\* What a failed conversion raises.
StructError == [raised |-> "struct.error"]
UnicodeDecodeError == [raised |-> "UnicodeDecodeError"]
Raised(x) == "raised" \in DOMAIN x

\* struct.pack('!BBHHHBBH4s4s', ...) as both to_bytes call it, with the
\* identification they write.
PackIPHeader(d, id) ==
    <<d.ip_ver * 16 + d.ip_ihl, d.ip_tos>> \o U16(d.ip_tot_len) \o U16(id)
       \o U16(d.ip_frag_off) \o <<d.ip_ttl, d.ip_proto>> \o U16(d.ip_check)
       \o inet_aton(d.ip_saddr) \o inet_aton(d.ip_daddr)

\* IPHeader.from_bytes
IPHeader_from_bytes(data) ==
    LET h == Slice(data, 0, 20)
    IN IF Len(h) < 20 THEN StructError
       ELSE [ip_ver |-> HighNibble(h[1]), ip_ihl |-> LowNibble(h[1]), ip_tos |-> h[2],
             ip_tot_len |-> G16(h, 2), ip_id |-> G16(h, 4), ip_frag_off |-> G16(h, 6),
             ip_ttl |-> h[9], ip_proto |-> h[10], ip_check |-> G16(h, 10),
             ip_saddr |-> inet_ntoa(SubSeq(h, 13, 16)),
             ip_daddr |-> inet_ntoa(SubSeq(h, 17, 20))]

\* LSADatagram.to_bytes
LSADatagram_to_bytes(d) ==
    PackIPHeader(d, d.ip_id) \o inet_aton(d.adv_rtr) \o U16(d.lsa_seq_num)
       \o StrEncode(d.lsa_data)

\* LSADatagram.from_bytes
LSADatagram_from_bytes(data) ==
    LET ip == IPHeader_from_bytes(data)
        l == Slice(data, 20, 26)
        text == BytesDecode(Slice(data, 26, Len(data)))
    IN IF Raised(ip) THEN ip
       ELSE IF Len(l) < 6 THEN StructError
       ELSE IF ~text.ok THEN UnicodeDecodeError
       ELSE [ip_ver |-> ip.ip_ver, ip_ihl |-> ip.ip_ihl, ip_tos |-> ip.ip_tos,
             ip_tot_len |-> ip.ip_tot_len, ip_id |-> ip.ip_id,
             ip_frag_off |-> ip.ip_frag_off, ip_ttl |-> ip.ip_ttl,
             ip_proto |-> ip.ip_proto, ip_check |-> ip.ip_check,
             ip_saddr |-> ip.ip_saddr, ip_daddr |-> ip.ip_daddr,
             adv_rtr |-> inet_ntoa(SubSeq(l, 1, 4)), lsa_seq_num |-> G16(l, 4),
             lsa_data |-> text.text]

\* HTTPDatagram.to_bytes: the identification written is 0.
HTTPDatagram_to_bytes(d) ==
    PackIPHeader(d, 0) \o U16(d.source_port) \o U16(d.dest_port) \o U32(d.seq_num)
       \o U32(d.ack_num) \o <<d.data_offset * 16 + d.reserved, d.flags>>
       \o U16(d.window_size) \o U16(d.checksum) \o U16(d.urgent_pointer)
       \o inet_aton(d.next_hop) \o StrEncode(d.data)

\* HTTPDatagram.from_bytes: the constructor sets the identification to 0.
HTTPDatagram_from_bytes(data) ==
    LET h == Slice(data, 0, 20)
        t == Slice(data, 20, 44)
        text == BytesDecode(Slice(data, 44, Len(data)))
    IN IF Len(h) < 20 \/ Len(t) < 24 THEN StructError
       ELSE IF ~text.ok THEN UnicodeDecodeError
       ELSE [ip_ver |-> HighNibble(h[1]), ip_ihl |-> LowNibble(h[1]), ip_tos |-> h[2],
             ip_tot_len |-> G16(h, 2), ip_id |-> 0, ip_frag_off |-> G16(h, 6),
             ip_ttl |-> h[9], ip_proto |-> h[10], ip_check |-> G16(h, 10),
             ip_saddr |-> inet_ntoa(SubSeq(h, 13, 16)),
             ip_daddr |-> inet_ntoa(SubSeq(h, 17, 20)),
             source_port |-> G16(t, 0), dest_port |-> G16(t, 2),
             seq_num |-> G32(t, 4), ack_num |-> G32(t, 8),
             data_offset |-> HighNibble(t[13]), reserved |-> LowNibble(t[13]),
             flags |-> t[14], window_size |-> G16(t, 14), checksum |-> G16(t, 16),
             urgent_pointer |-> G16(t, 18), next_hop |-> inet_ntoa(SubSeq(t, 21, 24)),
             data |-> text.text]

\* ---------------------------------------- SpecCodec: to_bytes, from_bytes
\* Addresses as the code writes them.
AddrClient == <<"1", "2", "7", ".", "0", ".", "0", ".", "1">>
AddrServer == <<"1", "2", "7", ".", "1", "2", "8", ".", "0", ".", "1">>
AddrClientGateway == <<"1", "2", "7", ".", "0", ".", "0", ".", "2", "5", "4">>
AddrGroup == <<"2", "2", "4", ".", "0", ".", "0", ".", "5">>
AddrRouter1 == <<"1", ".", "1", ".", "1", ".", "1">>
AddrZero == <<"0", ".", "0", ".", "0", ".", "0">>
AddrOnes == <<"2", "5", "5", ".", "2", "5", "5", ".", "2", "5", "5", ".", "2", "5", "5">>
AddrMixed == <<"1", "0", ".", "2", "0", "0", ".", "9", ".", "1", "0", "0">>

AddrSamples == {AddrClient, AddrServer, AddrGroup, AddrZero, AddrOnes, AddrMixed}

\* Code points with encodings of one, two, three and four bytes.
CodePoints == {65, 233, 8364, 128512}

Payloads == UNION {[1..n -> CodePoints] : n \in 0..MaxPayload}

\* The fields by width; a 32-bit field is sampled up to 2^31 - 1.
Fields4 == {"ip_ver", "ip_ihl", "data_offset", "reserved"}
Fields8 == {"ip_tos", "ip_ttl", "ip_proto", "flags"}
Fields16 == {"ip_tot_len", "ip_id", "ip_frag_off", "ip_check", "source_port",
             "dest_port", "window_size", "checksum", "urgent_pointer", "lsa_seq_num"}
Fields32 == {"seq_num", "ack_num"}
FieldsAddr == {"ip_saddr", "ip_daddr", "next_hop", "adv_rtr"}
FieldsText == {"data", "lsa_data"}

FieldValues(f) ==
    IF f \in Fields4 THEN {0, 1, 15}
    ELSE IF f \in Fields8 THEN {0, 1, 255}
    ELSE IF f \in Fields16 THEN {0, 1, 256, 65535}
    ELSE IF f \in Fields32 THEN {0, 1, 65536, 2147483647}
    ELSE IF f \in FieldsAddr THEN AddrSamples
    ELSE Payloads

\* LSADatagram() and HTTPDatagram() with the defaults of the constructors
\* (next_hop, '' by default, as the endpoints set it).
LsaDefault ==
    [ip_ver |-> 4, ip_ihl |-> 5, ip_tos |-> 0, ip_tot_len |-> 40, ip_id |-> 0,
     ip_frag_off |-> 0, ip_ttl |-> 255, ip_proto |-> 255, ip_check |-> 0,
     ip_saddr |-> <<"1", "2", "7", ".", "0", ".", "0", ".", "2">>, ip_daddr |-> AddrServer,
     adv_rtr |-> AddrRouter1, lsa_seq_num |-> 0, lsa_data |-> <<>>]

HttpDefault ==
    [ip_ver |-> 4, ip_ihl |-> 5, ip_tos |-> 0, ip_tot_len |-> 40, ip_id |-> 0,
     ip_frag_off |-> 0, ip_ttl |-> 255, ip_proto |-> 255, ip_check |-> 0,
     ip_saddr |-> <<"1", "2", "7", ".", "0", ".", "0", ".", "2">>, ip_daddr |-> AddrServer,
     source_port |-> 18000, dest_port |-> 8080, seq_num |-> 0, ack_num |-> 0,
     data_offset |-> 5, reserved |-> 0, flags |-> 0, window_size |-> 3, checksum |-> 0,
     urgent_pointer |-> 0, next_hop |-> AddrClientGateway, data |-> <<>>]

\* Every field at its largest value.
LsaLargest ==
    [ip_ver |-> 15, ip_ihl |-> 15, ip_tos |-> 255, ip_tot_len |-> 65535, ip_id |-> 65535,
     ip_frag_off |-> 65535, ip_ttl |-> 255, ip_proto |-> 255, ip_check |-> 65535,
     ip_saddr |-> AddrOnes, ip_daddr |-> AddrOnes, adv_rtr |-> AddrOnes,
     lsa_seq_num |-> 65535, lsa_data |-> <<128512, 8364>>]

HttpLargest ==
    [ip_ver |-> 15, ip_ihl |-> 15, ip_tos |-> 255, ip_tot_len |-> 65535, ip_id |-> 0,
     ip_frag_off |-> 65535, ip_ttl |-> 255, ip_proto |-> 255, ip_check |-> 65535,
     ip_saddr |-> AddrOnes, ip_daddr |-> AddrOnes,
     source_port |-> 65535, dest_port |-> 65535, seq_num |-> 2147483647,
     ack_num |-> 2147483647, data_offset |-> 15, reserved |-> 15, flags |-> 255,
     window_size |-> 65535, checksum |-> 65535, urgent_pointer |-> 65535,
     next_hop |-> AddrOnes, data |-> <<128512, 8364>>]

\* The datagrams converted: a default or a largest one with one field set to
\* each of its sample values.  HTTPDatagram has no ip_id argument.
Variations(b, fs) == UNION {{[b EXCEPT ![f] = v] : v \in FieldValues(f)} : f \in fs}

LsaInputs ==
    Variations(LsaDefault, DOMAIN LsaDefault) \cup Variations(LsaLargest, DOMAIN LsaLargest)

HttpInputs ==
    Variations(HttpDefault, DOMAIN HttpDefault \ {"ip_id"})
       \cup Variations(HttpLargest, DOMAIN HttpLargest \ {"ip_id"})

\* d.to_bytes()
ToBytes ==
    /\ wire_pc = "made"
    /\ wire_task \in {"LSADatagram", "HTTPDatagram"}
    /\ wire_bytes' = IF wire_task = "LSADatagram" THEN LSADatagram_to_bytes(wire_in)
                     ELSE HTTPDatagram_to_bytes(wire_in)
    /\ wire_pc' = "encoded"
    /\ UNCHANGED <<wire_task, wire_in, wire_out>>
    /\ UNCHANGED otherThanWire

\* cls.from_bytes(bytes)
FromBytes ==
    /\ wire_pc = "encoded"
    /\ wire_task \in {"LSADatagram", "HTTPDatagram"}
    /\ wire_out' = IF wire_task = "LSADatagram" THEN LSADatagram_from_bytes(wire_bytes)
                   ELSE HTTPDatagram_from_bytes(wire_bytes)
    /\ wire_pc' = "decoded"
    /\ UNCHANGED <<wire_task, wire_in, wire_bytes>>
    /\ UNCHANGED otherThanWire

\* The variables of the other parts, in a specification of pdu.py alone.
AllButWireIdle ==
    /\ GbnOver
    /\ RtIdle
    /\ FwIdle
    /\ LsIdle
    /\ HttpIdle
    /\ HsIdle
    /\ ConnIdle
    /\ PathIdle

InitCodec ==
    /\ \/ wire_task = "LSADatagram" /\ wire_in \in LsaInputs
       \/ wire_task = "HTTPDatagram" /\ wire_in \in HttpInputs
    /\ wire_bytes = <<>>
    /\ wire_out = Nothing
    /\ wire_pc = "made"
    /\ AllButWireIdle

NextCodec == ToBytes \/ FromBytes

SpecCodec == InitCodec /\ [][NextCodec]_vars

\* ------------------------------ SpecDecode: a task reads a short buffer
\* The lengths of the fixed headers the decoders unpack.
IPHeaderLen == 20
LSAHeaderLen == 26
HTTPHeaderLen == 44

\* The tasks that call recv or recvfrom, by the loop they are in.
RouterTasks == {"router_flooding", "router_forwarding"}
ClientTasks == {"client_handshake", "client_ack_wait", "client_reception"}
ServerTasks == {"server_syn_wait", "server_handshake_ack_wait", "server_reception",
                "server_ack_wait"}

\* Datagrams as the routers and the endpoints send them: an LSA, the
\* server's SYN/ACK, a request segment, an ACK of the client.
DecodeSamples ==
    { [LsaDefault EXCEPT !.ip_daddr = AddrGroup, !.lsa_seq_num = 1,
                         !.lsa_data = <<65, 65, 65, 65, 65, 65, 65, 65, 65, 65, 65, 65,
                                        65, 65, 65, 65, 65, 65, 65, 65>>],
      [HttpDefault EXCEPT !.ip_saddr = AddrServer, !.ip_daddr = AddrClient,
                          !.flags = FlagSYNACK, !.next_hop = AddrClient,
                          !.data = <<83, 89, 78, 45, 65, 67, 75>>],
      [HttpDefault EXCEPT !.ip_saddr = AddrClient, !.ip_daddr = AddrServer,
                          !.flags = FlagPSHACK, !.next_hop = AddrServer,
                          !.seq_num = ISN + 1, !.data = <<71, 69, 84>>],
      [HttpDefault EXCEPT !.ip_saddr = AddrClient, !.ip_daddr = AddrServer,
                          !.flags = FlagACK, !.next_hop = AddrServer,
                          !.ack_num = ISN + 2, !.data = <<65, 67, 75>>] }

IsLsa(d) == "adv_rtr" \in DOMAIN d

SampleBytes(d) == IF IsLsa(d) THEN LSADatagram_to_bytes(d) ELSE HTTPDatagram_to_bytes(d)

\* The lengths the buffers are cut to: around each header length, and whole.
CutLengths(d) ==
    {0, 1, IPHeaderLen - 1, IPHeaderLen, LSAHeaderLen - 1, LSAHeaderLen,
     HTTPHeaderLen - 1, HTTPHeaderLen, Len(SampleBytes(d))}

\* What a task does with the buffer b: where it goes ("loop": on in the
\* loop it is in; "raised": the exception leaves the function to the caller
\* of the task; "left": the except clause of process_request ends the send
\* loop) and what the decoders returned or raised.
Outcome(pc, out) == [pc |-> pc, out |-> out]

\* process_datagrams: both loops are inside try ... except Exception: continue.
RouterOutcome(task, b, from_peer) ==
    IF task = "router_flooding"
    THEN LET ip == IPHeader_from_bytes(b)
         IN IF Raised(ip) THEN Outcome("loop", ip)
            ELSE IF ip.ip_daddr = AddrGroup /\ from_peer
            THEN Outcome("loop", LSADatagram_from_bytes(b))
            ELSE Outcome("loop", ip)
    ELSE Outcome("loop", HTTPDatagram_from_bytes(b))

\* initiate_handshake and send_request_segments decode after the try that
\* catches socket.timeout; process_response_segments decodes inside
\* try ... except Exception: continue.
ClientOutcome(task, b) ==
    IF task \in {"client_handshake", "client_ack_wait"}
    THEN LET d == HTTPDatagram_from_bytes(b)
         IN Outcome(IF Raised(d) THEN "raised" ELSE "loop", d)
    ELSE LET ip == IPHeader_from_bytes(b)
         IN IF Raised(ip) THEN Outcome("loop", ip)
            ELSE IF ip.ip_daddr = AddrClient THEN Outcome("loop", HTTPDatagram_from_bytes(b))
            ELSE Outcome("loop", ip)

\* accept_handshake and receive_request_segments decode outside any try; the
\* ACK loop of process_request is inside the try of the whole send loop.
ServerOutcome(task, b) ==
    IF task = "server_ack_wait"
    THEN LET d == HTTPDatagram_from_bytes(b)
         IN Outcome(IF Raised(d) THEN "left" ELSE "loop", d)
    ELSE LET ip == IPHeader_from_bytes(b)
         IN IF Raised(ip) THEN Outcome("raised", ip)
            ELSE IF (task = "server_reception" /\ ip.ip_daddr = AddrServer)
                    \/ (task # "server_reception" /\ ip.ip_daddr # AddrGroup)
            THEN LET d == HTTPDatagram_from_bytes(b)
                 IN Outcome(IF Raised(d) THEN "raised" ELSE "loop", d)
            ELSE Outcome("loop", ip)

\* A router's recvfrom returns the buffer, from a peer of the router or not.
RouterReads ==
    /\ wire_pc = "recv"
    /\ wire_task \in RouterTasks
    /\ \E from_peer \in BOOLEAN :
         LET o == RouterOutcome(wire_task, wire_bytes, from_peer)
         IN wire_pc' = o.pc /\ wire_out' = o.out
    /\ UNCHANGED <<wire_task, wire_in, wire_bytes>>
    /\ UNCHANGED otherThanWire

\* The client's recv returns the buffer.
ClientReads ==
    /\ wire_pc = "recv"
    /\ wire_task \in ClientTasks
    /\ LET o == ClientOutcome(wire_task, wire_bytes)
       IN wire_pc' = o.pc /\ wire_out' = o.out
    /\ UNCHANGED <<wire_task, wire_in, wire_bytes>>
    /\ UNCHANGED otherThanWire

\* The server's recv returns the buffer.
ServerReads ==
    /\ wire_pc = "recv"
    /\ wire_task \in ServerTasks
    /\ LET o == ServerOutcome(wire_task, wire_bytes)
       IN wire_pc' = o.pc /\ wire_out' = o.out
    /\ UNCHANGED <<wire_task, wire_in, wire_bytes>>
    /\ UNCHANGED otherThanWire

InitDecode ==
    /\ wire_task \in RouterTasks \cup ClientTasks \cup ServerTasks
    /\ wire_in \in DecodeSamples
    /\ \E n \in CutLengths(wire_in) : wire_bytes = Slice(SampleBytes(wire_in), 0, n)
    /\ wire_out = Nothing
    /\ wire_pc = "recv"
    /\ AllButWireIdle

NextDecode == RouterReads \/ ClientReads \/ ServerReads

SpecDecode == InitDecode /\ [][NextDecode]_vars

\* ------------------- SpecRelay: a datagram from an endpoint through a router
\* recvfrom(1024) in both loops of process_datagrams.
RouterBufSize == 1024

\* "Assuming 60 bytes for headers": a segment holds frame_size - 60 bytes.
HeaderAllowance == 60

\* The frame sizes of the endpoints: Server(frame_size=64), the default of
\* both constructors, Client(frame_size=2048).
FrameSizes == {64, 1024, 2048}

\* The payload lengths of the segments sent: none, one byte, a full segment.
PayloadSizes == UNION {{0, 1, f - HeaderAllowance} : f \in FrameSizes}

Addr248_0_1 == <<"1", "2", "7", ".", "2", "4", "8", ".", "0", ".", "1">>
Addr248_0_2 == <<"1", "2", "7", ".", "2", "4", "8", ".", "0", ".", "2">>
Addr248_4_1 == <<"1", "2", "7", ".", "2", "4", "8", ".", "4", ".", "1">>
Addr248_4_2 == <<"1", "2", "7", ".", "2", "4", "8", ".", "4", ".", "2">>

\* Router 1 of network_app.py: its interfaces, and its forwarding table when
\* the routes to the client's and the server's subnets are in it.
RelayInterfaces ==
    << [name |-> "Gi0/1", local |-> AddrClientGateway, peer |-> AddrClient],
       [name |-> "Gi0/2", local |-> Addr248_0_1, peer |-> Addr248_0_2],
       [name |-> "Gi0/3", local |-> Addr248_4_1, peer |-> Addr248_4_2] >>

RelayTable ==
    << [dest |-> Cidr(<<127, 0, 0, 0>>, 24),   iface |-> "Gi0/1", cost |-> 0],
       [dest |-> Host(<<2, 2, 2, 2>>),         iface |-> "Gi0/2", cost |-> 3],
       [dest |-> Host(<<3, 3, 3, 3>>),         iface |-> "Gi0/3", cost |-> 8],
       [dest |-> Cidr(<<127, 128, 0, 0>>, 24), iface |-> "Gi0/3", cost |-> 24] >>

\* The segments that reach router 1: from the client through its gateway, and
\* from the server through router 3.
RelayInputs ==
    { [HttpDefault EXCEPT !.ip_saddr = IF up THEN AddrClient ELSE AddrServer,
                          !.ip_daddr = IF up THEN AddrServer ELSE AddrClient,
                          !.source_port = IF up THEN 18000 ELSE 8080,
                          !.dest_port = IF up THEN 8080 ELSE 18000,
                          !.seq_num = s, !.ack_num = ISN + 1, !.flags = f,
                          !.window_size = w,
                          !.next_hop = IF up THEN AddrClientGateway ELSE Addr248_4_1,
                          !.data = [i \in 1..n |-> 97]] :
        up \in BOOLEAN, s \in {ISN + 1, ISN + 2}, f \in {FlagPSHACK, FlagFINPSHACK},
        w \in 1..MaxWindow, n \in PayloadSizes }

\* sendto(datagram.to_bytes(), (gateway, 0)) by the endpoint or the router before.
EndpointSends ==
    /\ wire_task = "relay"
    /\ wire_pc = "made"
    /\ wire_bytes' = HTTPDatagram_to_bytes(wire_in)
    /\ wire_pc' = "sent"
    /\ UNCHANGED <<wire_task, wire_in, wire_out>>
    /\ UNCHANGED otherThanWire

\* recvfrom(1024) in the forwarding loop: the first 1024 bytes of the datagram.
RouterRecvfrom ==
    /\ wire_task = "relay"
    /\ wire_pc = "sent"
    /\ wire_bytes' = Slice(wire_bytes, 0, RouterBufSize)
    /\ wire_pc' = "read"
    /\ UNCHANGED <<wire_task, wire_in, wire_out>>
    /\ UNCHANGED otherThanWire

\* forward_datagram on the bytes read: the datagram sent on and the address
\* it is sent to, or nothing when from_bytes raises or no route is found.
RelayForward(b) ==
    LET d == HTTPDatagram_from_bytes(b)
    IN IF Raised(d) THEN Nothing
       ELSE LET calls == ForwardDatagram(RelayInterfaces, RelayTable,
                                         [d EXCEPT !.ip_daddr = inet_aton(d.ip_daddr)])
            IN IF calls = <<>> THEN Nothing
               ELSE [iface |-> calls[1].iface,
                     to |-> calls[1].to,
                     dgram |-> [HttpDefault EXCEPT !.ip_saddr = d.ip_saddr,
                                                   !.ip_daddr = d.ip_daddr,
                                                   !.source_port = d.source_port,
                                                   !.dest_port = d.dest_port,
                                                   !.seq_num = d.seq_num,
                                                   !.ack_num = d.ack_num,
                                                   !.flags = d.flags,
                                                   !.window_size = d.window_size,
                                                   !.next_hop = calls[1].to,
                                                   !.data = d.data]]

RouterForwards ==
    /\ wire_task = "relay"
    /\ wire_pc = "read"
    /\ wire_out' = RelayForward(wire_bytes)
    /\ wire_pc' = IF wire_out' = Nothing THEN "dropped" ELSE "forwarded"
    /\ UNCHANGED <<wire_task, wire_in, wire_bytes>>
    /\ UNCHANGED otherThanWire

InitRelay ==
    /\ wire_task = "relay"
    /\ wire_in \in RelayInputs
    /\ wire_bytes = <<>>
    /\ wire_out = Nothing
    /\ wire_pc = "made"
    /\ AllButWireIdle

NextRelay == EndpointSends \/ RouterRecvfrom \/ RouterForwards

SpecRelay == InitRelay /\ [][NextRelay]_vars

\* ------------- SpecLate: LSAs that reach a router in its forwarding loop
\* The four octets HTTPDatagram.from_bytes takes as next_hop when the buffer
\* holds an LSA: characters 15 to 18 of its text ("0, G" after a '/24' subnet).
TextHop == <<48, 44, 32, 71>>
GroupAddr == <<224, 0, 0, 5>>

\* HTTPDatagram.from_bytes on the bytes of an LSA: the addresses of the IP
\* header, the other fields read out of the LSA header and text.
LsaReadAsHttp(m) == HTTPDatagram(m.src, GroupAddr, 0, 0, 0, TextHop, m.data)

\* A router whose two loops both hand LSAs to process_link_state_advertisement.
LsaEitherLoop(phase) == TRUE

\* The loop of process_datagrams that calls process_link_state_advertisement.
LsaLoop(phase) == phase = "flooding"

\* A host puts an LSA on the link to its router after the router has left
\* the flooding loop: any advertising router, any sequence number, that
\* router's links or an empty text.
LsaArrivesLate ==
    \E r \in Routers : \E j \in Routers : \E seq \in 0..MaxSeq :
    \E data \in {<<>>, FormatLsa(DirectConnections(ls_topo, j))} :
        /\ ls_phase[r] = "forwarding"
        /\ ls_injected < MaxInject
        /\ ls_injected' = ls_injected + 1
        /\ ls_queue' = [ls_queue EXCEPT ![r] =
                          Append(@, [to |-> r, iface |-> "Gi0/3", src |-> HostAddr(r),
                                     adv |-> RouterId(j), seq |-> seq, data |-> data])]
        /\ UNCHANGED <<ls_topo, ls_sock, ls_now, ls_lsdb, ls_num, ls_timer, ls_busy,
                       ls_pending, ls_phase, ls_table, ls_init, ls_accepted, ls_last>>
        /\ UNCHANGED otherThanLs

\* One recvfrom of the forwarding loop that returns an LSA: forward_datagram
\* decodes it as an HTTP datagram (a text shorter than 18 bytes raises
\* struct.error, caught by the loop) and finds next_hop is none of its
\* addresses.
ReadLsaForwarding ==
    \E r \in Routers : \E k \in 1..Len(ls_queue[r]) :
        LET m == ls_queue[r][k]
        IN /\ ls_phase[r] = "forwarding"
           /\ FirstOfSocket(ls_queue[r], k)
           /\ ls_queue' = [ls_queue EXCEPT ![r] = Without(@, k)]
           /\ ls_last' = [r |-> r, adv |-> m.adv, seq |-> m.seq]
           /\ IF LsaLoop(ls_phase[r])
              THEN /\ ls_num' = [ls_num EXCEPT ![r] = SetNum(@, m.adv, m.seq)]
                   /\ ls_lsdb' = [ls_lsdb EXCEPT ![r] = LsdbPut(@, m.adv, ParseLsa(m.data))]
                   /\ UNCHANGED <<ls_http, ls_calls>>
              ELSE LET out == IF m.data = <<>> THEN <<>>
                              ELSE ForwardDatagram(RouterInterfaces(ls_topo, r), ls_table[r],
                                                   LsaReadAsHttp(m))
                   IN /\ ls_calls' = ls_calls \cup
                                        {[r |-> r, phase |-> ls_phase[r], table |-> ls_table[r],
                                          dgram |-> LsaReadAsHttp(m), out |-> out]}
                      /\ ls_http' = DeliverHttp(ls_http, out)
                      /\ UNCHANGED <<ls_num, ls_lsdb>>
           /\ UNCHANGED <<ls_topo, ls_sock, ls_now, ls_timer, ls_busy, ls_pending, ls_phase,
                          ls_table, ls_init, ls_accepted, ls_injected>>
           /\ UNCHANGED otherThanPh

InitLate ==
    /\ MeshStart([n |-> 2, kind |-> "line"])
    /\ GbnIdle
    /\ RtIdle
    /\ FwIdle
    /\ HttpIdle
    /\ HsIdle
    /\ ConnIdle
    /\ WireIdle
    /\ PathIdle

NextLate ==
    \/ NextPhase
    \/ LsaArrivesLate
    \/ ReadLsaForwarding

SpecLate == InitLate /\ [][NextLate]_vars

\* ------------- SpecPath: a datagram handed to a mesh whose routers have
\* ------------- computed their forwarding tables
\* router_int_con of network_app.py: six routers.
Iface(name, local, peer) == [name |-> name, local |-> local, peer |-> peer]

\* The interfaces of the six routers: name -> (local address, peer address).
SampleInterfaces ==
    << << Iface("Gi0/1", <<127, 0, 0, 254>>, <<127, 0, 0, 1>>),
          Iface("Gi0/2", <<127, 248, 0, 1>>, <<127, 248, 0, 2>>),
          Iface("Gi0/3", <<127, 248, 4, 1>>, <<127, 248, 4, 2>>) >>,
       << Iface("Gi0/1", <<127, 248, 0, 2>>, <<127, 248, 0, 1>>),
          Iface("Gi0/2", <<127, 30, 0, 254>>, <<127, 30, 0, 1>>),
          Iface("Gi0/3", <<127, 248, 12, 1>>, <<127, 248, 12, 2>>),
          Iface("Gi0/4", <<127, 248, 8, 1>>, <<127, 248, 8, 2>>) >>,
       << Iface("Gi0/1", <<127, 248, 4, 2>>, <<127, 248, 4, 1>>),
          Iface("Gi0/2", <<127, 248, 8, 2>>, <<127, 248, 8, 1>>),
          Iface("Gi0/3", <<127, 248, 16, 1>>, <<127, 248, 16, 2>>),
          Iface("Gi0/4", <<127, 10, 0, 254>>, <<127, 10, 0, 1>>) >>,
       << Iface("Gi0/1", <<127, 248, 12, 2>>, <<127, 248, 12, 1>>),
          Iface("Gi0/2", <<127, 40, 0, 254>>, <<127, 40, 0, 1>>),
          Iface("Gi0/3", <<127, 248, 24, 1>>, <<127, 248, 24, 2>>),
          Iface("Gi0/4", <<127, 248, 20, 1>>, <<127, 248, 20, 2>>) >>,
       << Iface("Gi0/1", <<127, 248, 16, 2>>, <<127, 248, 16, 1>>),
          Iface("Gi0/2", <<127, 248, 20, 2>>, <<127, 248, 20, 1>>),
          Iface("Gi0/3", <<127, 248, 28, 1>>, <<127, 248, 28, 2>>) >>,
       << Iface("Gi0/1", <<127, 248, 24, 2>>, <<127, 248, 24, 1>>),
          Iface("Gi0/2", <<127, 248, 28, 2>>, <<127, 248, 28, 1>>),
          Iface("Gi0/3", <<127, 128, 0, 254>>, <<127, 128, 0, 1>>) >> >>

\* The direct connections of the six routers: destination -> (cost,
\* interface), as <<dest, cost, iface>>; router 5 names an interface Gi0/4 it
\* does not have.
SampleConnections ==
    << << <<Cidr(<<127, 0, 0, 0>>, 24), 0, "Gi0/1">>,
          <<RouterId(2), 3, "Gi0/2">>,
          <<RouterId(3), 9, "Gi0/3">> >>,
       << <<Cidr(<<127, 30, 0, 0>>, 24), 0, "Gi0/2">>,
          <<RouterId(1), 3, "Gi0/1">>,
          <<RouterId(3), 5, "Gi0/4">>,
          <<RouterId(4), 12, "Gi0/3">> >>,
       << <<Cidr(<<127, 10, 0, 0>>, 24), 0, "Gi0/4">>,
          <<RouterId(1), 9, "Gi0/1">>,
          <<RouterId(2), 5, "Gi0/2">>,
          <<RouterId(5), 10, "Gi0/3">> >>,
       << <<Cidr(<<127, 40, 0, 0>>, 24), 0, "Gi0/2">>,
          <<RouterId(2), 12, "Gi0/1">>,
          <<RouterId(5), 4, "Gi0/4">>,
          <<RouterId(6), 10, "Gi0/3">> >>,
       << <<Cidr(<<127, 20, 0, 0>>, 24), 0, "Gi0/4">>,
          <<RouterId(3), 10, "Gi0/1">>,
          <<RouterId(4), 4, "Gi0/2">>,
          <<RouterId(6), 5, "Gi0/3">> >>,
       << <<Cidr(<<127, 128, 0, 0>>, 24), 0, "Gi0/3">>,
          <<RouterId(4), 10, "Gi0/1">>,
          <<RouterId(5), 5, "Gi0/2">> >> >>

SampleMesh == [n |-> Len(SampleInterfaces), kind |-> "sample"]

\* The meshes a datagram is followed through: the lines, the ring, the sample.
PathMeshes == Topologies \cup {SampleMesh}

MeshInterfaces(t, i) ==
    IF t.kind = "sample" THEN SampleInterfaces[i] ELSE RouterInterfaces(t, i)

MeshConnections(t, i) ==
    IF t.kind = "sample" THEN SampleConnections[i] ELSE DirectConnections(t, i)

RECURSIVE MeshLsdbLoop(_, _, _, _)
MeshLsdbLoop(t, i, j, l) ==
    IF j > t.n THEN l
    ELSE MeshLsdbLoop(t, i, j + 1,
                      IF j = i THEN l ELSE LsdbPut(l, RouterId(j), MeshConnections(t, j)))

\* The complete LSDB of router i: its own entry, then the LSA of every other
\* router.
MeshLsdb(t, i) ==
    MeshLsdbLoop(t, i, 1, << [adv |-> RouterId(i), links |-> MeshConnections(t, i)] >>)

\* The forwarding table router i computes from its complete LSDB.
MeshTable(t, i) == RunRouteAlg(MeshLsdb(t, i), RouterId(i))

\* The subnet attached to router j (its direct connection of cost 0) and a
\* host of it.
AttachedSubnet(t, j) == MeshConnections(t, j)[1][1]
HostOfSubnet(t, j) == [AttachedSubnet(t, j).octets EXCEPT ![4] = 1]

\* The router that owns an address, 0 for the address of a host.
OwnerOf(t, addr) ==
    IF \E i \in 1..t.n : \E k \in 1..Len(MeshInterfaces(t, i)) :
           MeshInterfaces(t, i)[k].local = addr
    THEN CHOOSE i \in 1..t.n : \E k \in 1..Len(MeshInterfaces(t, i)) :
             MeshInterfaces(t, i)[k].local = addr
    ELSE 0

\* One recvfrom of the forwarding loop of the router holding the datagram,
\* and forward_datagram on it: the datagram goes to the next router, leaves
\* the mesh for a host, or is dropped.
PathForward ==
    /\ path_pc = "forwarding"
    /\ Len(path_visited) <= path_mesh.n
    /\ LET out == ForwardDatagram(MeshInterfaces(path_mesh, path_at),
                                  path_tables[path_at], path_dgram)
       IN IF out = <<>>
          THEN /\ path_pc' = "dropped"
               /\ UNCHANGED <<path_at, path_dgram, path_visited, path_out>>
          ELSE /\ path_out' = [iface |-> out[1].iface, to |-> out[1].to]
               /\ path_dgram' = out[1].dgram
               /\ IF OwnerOf(path_mesh, out[1].to) = 0
                  THEN /\ path_pc' = "emitted"
                       /\ UNCHANGED <<path_at, path_visited>>
                  ELSE /\ path_at' = OwnerOf(path_mesh, out[1].to)
                       /\ path_visited' = Append(path_visited, OwnerOf(path_mesh, out[1].to))
                       /\ path_pc' = "forwarding"
    /\ UNCHANGED <<path_mesh, path_tables>>
    /\ UNCHANGED otherThanPath

\* Every router has run run_route_alg on its complete LSDB; a datagram for a
\* host of the subnet attached to router j is handed to router a on one of
\* its interfaces.
InitPath ==
    /\ path_mesh \in PathMeshes
    /\ path_tables = [i \in 1..path_mesh.n |-> MeshTable(path_mesh, i)]
    /\ \E a \in 1..path_mesh.n : \E j \in 1..path_mesh.n :
       \E k \in 1..Len(MeshInterfaces(path_mesh, a)) :
          /\ path_at = a
          /\ path_dgram = HTTPDatagram(<<127, 0, 0, 1>>, HostOfSubnet(path_mesh, j), ISN + 1,
                                       ISN + 1, FlagPSHACK,
                                       MeshInterfaces(path_mesh, a)[k].local, 0)
          /\ path_visited = <<a>>
    /\ path_out = Nothing
    /\ path_pc = "forwarding"
    /\ GbnIdle
    /\ RtIdle
    /\ FwIdle
    /\ LsIdle
    /\ HttpIdle
    /\ HsIdle
    /\ ConnIdle
    /\ WireIdle

NextPath == PathForward

SpecPath == InitPath /\ [][NextPath]_vars

\* ------------------------------------------------------------ claims
SeqUpTo(n) == [i \in 1..n |-> i - 1]

\* Some segment has been transmitted more than once.
Retransmitted == \E e \in sentLog : e[4] = "rexmit"

\* C1: Go-Back-N progress: when the channel drops only finitely many
\* datagrams, the sender's base reaches the number of segments.
C1_GoBackNProgress == <>(base = nsegs)

\* C2: the receiver's ack_num minus (peer ISN + 1) is the number of segments
\* appended, and the reassembled payload is segments 0..k-1 in order.
C2_ReceiverInOrder ==
    /\ ack_num - (ISN + 1) = Len(reassembled)
    /\ reassembled = SeqUpTo(Len(reassembled))

\* C2 witness: segments were taken after a loss and a retransmission.
C2_Witness ==
    /\ Len(reassembled) >= 3
    /\ lost > 0
    /\ Retransmitted

\* C8: with seq_num taken relative to the sequence number of segment 0,
\* seq_num >= base and seq_num - base <= W in every state of a send.
C8_SenderWindow ==
    /\ seq_num - init_seq_num >= base
    /\ seq_num - init_seq_num - base <= window_size

\* C8 witness: the window is full after a timeout rewind and an ACK-triggered send.
C8_Witness ==
    /\ seq_num - init_seq_num - base = window_size
    /\ base > 0
    /\ Retransmitted
    /\ \E e \in sentLog : e[4] = "ack"

\* C9: in a data stream (initial flags 24) every transmission of the last
\* segment carries flags 25.
C9_LastSegmentHasFIN ==
    flags # FlagFINACK =>
        \A e \in sentLog : e[1] = nsegs - 1 => e[3] = FlagFINPSHACK

\* C10: no transmission of a segment before the last carries flags 25.
C10_FINOnlyOnLast ==
    \A e \in sentLog : e[1] < nsegs - 1 => e[3] # FlagFINPSHACK

\* A reference for the least path costs: every node and edge of an LSDB, and
\* the distances after relaxing every edge once per node (Bellman-Ford).
AllNodes(l) ==
    {l[i].adv : i \in 1..Len(l)}
    \cup UNION {{l[i].links[k][1] : k \in 1..Len(l[i].links)} : i \in 1..Len(l)}

AllEdges(l) ==
    UNION {{<<l[i].adv, l[i].links[k][1], l[i].links[k][2]>> : k \in 1..Len(l[i].links)} :
              i \in 1..Len(l)}

SetMin(S) == CHOOSE x \in S : \A y \in S : x <= y

RECURSIVE RefRelax(_, _, _)
RefRelax(l, dist, k) ==
    IF k = 0 THEN dist
    ELSE RefRelax(l,
                  [n \in DOMAIN dist |->
                      SetMin({dist[n]} \cup
                             {Plus(dist[e[1]], e[3]) : e \in {x \in AllEdges(l) : x[2] = n}})],
                  k - 1)

LeastCost(l, self) ==
    RefRelax(l, [n \in AllNodes(l) |-> IF n = self THEN 0 ELSE Infinity],
             Cardinality(AllNodes(l)))

TwoRouterMesh == [n |-> 2, kind |-> "line"]

\* C5: after run_route_alg the forwarding table has an entry for every node
\* of the LSDB, with the least cost of a directed path from this router; in
\* the two-router mesh with link cost 3 the entry for the other router's
\* subnet has cost 3.
C5_ShortestPaths ==
    rt_pc = "done" =>
        /\ \A n \in AllNodes(rt_lsdb) :
              /\ TableHas(rt_table, n)
              /\ TableGet(rt_table, n).cost = LeastCost(rt_lsdb, RouterId(rt_self))[n]
        /\ rt_lsdb = CompleteLsdb(TwoRouterMesh, rt_self) =>
              /\ TableHas(rt_table, Subnet(3 - rt_self))
              /\ TableGet(rt_table, Subnet(3 - rt_self)).cost = 3

\* C5 witness: a table in which a direct neighbour is reached at a cost below
\* its link and another node is reached only through a neighbour.
C5_Witness ==
    /\ rt_pc = "done"
    /\ \E k \in 1..Len(GraphEdges(rt_lsdb, RouterId(rt_self))) :
          LET e == GraphEdges(rt_lsdb, RouterId(rt_self))[k]
          IN TableGet(rt_table, e[1]).cost < e[2]
    /\ \E i \in 1..Len(rt_table) :
          /\ rt_table[i].cost < Infinity
          /\ rt_table[i].cost > 0
          /\ \A k \in 1..Len(GraphEdges(rt_lsdb, RouterId(rt_self))) :
                GraphEdges(rt_lsdb, RouterId(rt_self))[k][1] # rt_table[i].dest


\* ------------------------------------------------ claims on forwarding
\* The number of leading bits of a key that equal the destination's, a bare
\* host key counted as a /32.
KeyLen(key) == IF key.cidr THEN key.plen ELSE 32
MatchingBits(key, dst) == CountBits(dst, key.octets, KeyLen(key), 0)
PrefixMatches(key, dst) == MatchingBits(key, dst) = KeyLen(key)
FwForwarded == fw_pc = "done" /\ IntendedForRouter(FwInterfaces, fw_in)

\* C6: longest-prefix correctness: the entry forward_datagram chooses has the
\* maximum number of matching leading bits over all entries of the table, a
\* bare host key counting as a /32, and a host entry equal to the destination
\* is the one chosen.
C6_LongestPrefix ==
    FwForwarded =>
        \A k \in 1..Len(fw_table) :
            /\ fw_choice # 0 =>
                  MatchingBits(fw_table[k].dest, fw_in.ip_daddr)
                      <= MatchingBits(fw_table[fw_choice].dest, fw_in.ip_daddr)
            /\ (~fw_table[k].dest.cidr /\ fw_table[k].dest.octets = fw_in.ip_daddr) =>
                  fw_choice = k

\* C7: a datagram is sent only through an entry whose declared prefix bits all
\* equal the destination's leading bits; when no entry's prefix matches,
\* nothing is sent on any interface.
C7_OnlyMatchingPrefix ==
    fw_pc = "done" =>
        /\ fw_out # <<>> =>
              /\ fw_choice # 0
              /\ PrefixMatches(fw_table[fw_choice].dest, fw_in.ip_daddr)
        /\ (\A k \in 1..Len(fw_table) : ~PrefixMatches(fw_table[k].dest, fw_in.ip_daddr)) =>
              fw_out = <<>>


\* -------------------------------------------------- claims on flooding
\* C3: LSA monotonicity: when a router reads an LSA (adv, seq') after it has
\* accepted an LSA (adv, seq) with seq' <= seq, the read changes neither its
\* LSDB, nor its table of highest sequence numbers, nor its quiescence timer,
\* and no flood follows; the sequence number recorded for an advertising
\* router never decreases.
C3_LsaMonotonic ==
    [][\A r \in Routers :
          /\ (/\ Len(ls_queue'[r]) < Len(ls_queue[r])
              /\ \E e \in ls_accepted[r] : e[1] = ls_last'.adv /\ ls_last'.seq <= e[2])
             => /\ ls_lsdb'[r] = ls_lsdb[r]
                /\ ls_num'[r] = ls_num[r]
                /\ ls_timer'[r] = ls_timer[r]
                /\ ls_pending'[r] = NoLsa
                /\ ls_busy'[r] = ls_busy[r]
          /\ \A adv \in DOMAIN ls_num[r] :
                /\ adv \in DOMAIN ls_num'[r]
                /\ ls_num'[r][adv] >= ls_num[r][adv]]_vars

\* The LSA last read has a lower sequence number than the one recorded for
\* its advertising router: it came after a newer one and was dropped.
C3_Witness ==
    /\ ls_last.r # 0
    /\ ls_last.adv \in DOMAIN ls_num[ls_last.r]
    /\ ls_last.seq < ls_num[ls_last.r][ls_last.adv]

\* C4: flood completeness: once every router has sent its initial LSA, a
\* router that has left the flooding phase has an LSDB entry for every other
\* router of the mesh.
C4_FloodComplete ==
    \A r \in Routers :
        (ls_init = ls_topo.n /\ ls_phase[r] = "forwarding") =>
            \A j \in Routers : LsdbHas(ls_lsdb[r], RouterId(j))

C4_Witness ==
    /\ ls_topo = [n |-> 3, kind |-> "ring"]
    /\ \A r \in Routers : ls_phase[r] = "forwarding"


\* C11: a receiver in its reception loop that gets a data segment whose seq_num
\* differs from the expected one (a duplicate of a segment it took, or a
\* segment ahead of a gap) leaves ack_num and the reassembled payload unchanged
\* and sends exactly one ACK, flags 16, with ack_num the expected one; it is
\* the ACK it sent last, so that handling the segment again gives the same
\* state and the same ACK.
C11_OutOfOrderStep ==
    /\ rpc = "recv"
    /\ dataQ # <<>>
    /\ dataQ' = Tail(dataQ)
    /\ DataForMe(Head(dataQ))
    /\ Head(dataQ).seq_num # ack_num

C11_AckIdempotent ==
    [][C11_OutOfOrderStep =>
          /\ ack_num' = ack_num
          /\ reassembled' = reassembled
          /\ rpc' = rpc
          /\ acksSent' = 1
          /\ lastAck'.flags = FlagACK
          /\ lastAck'.ack_num = ack_num
          /\ lastAck'.ip_daddr = Head(dataQ).ip_saddr
          /\ (lastAck.data = "ACK" => lastAck' = lastAck)
          /\ \/ ackQ' = Append(ackQ, Routed(lastAck')) /\ lost' = lost
             \/ ackQ' = ackQ /\ lost' = lost + 1]_vars

\* A receiver has just answered a segment it had already taken.
C11_Witness ==
    /\ acksSent = 1
    /\ lastSeq < ack_num - 1
    /\ lastAck.ack_num = ack_num
    /\ reassembled # <<>>


\* C12: loss then recovery on the request path (the client's send loop, the
\* server's receiving loop): when the channel drops data segments only finitely
\* often and drops no ACK, the transfer of N segments with window W eventually
\* completes with base = N at the sender and the payload s0..s(N-1)
\* reassembled at the receiver.
C12_Completed ==
    /\ base = nsegs
    /\ reassembled = SeqUpTo(nsegs)

C20_EndsOnFIN ==
    /\ rpc = "fin" => lastTaken \in {FlagFINPSHACK, FlagFINACK}
    /\ rpc = "recv" => lastTaken \notin {FlagFINPSHACK, FlagFINACK}


\* The segments sent so far carry flags f, but the last segment of the
\* response, which carries flags l.
SegmentFlags(f, l) ==
    \A e \in sentLog : e[3] = IF e[1] = nsegs - 1 THEN l ELSE f

\* The body of the text the client has reassembled: segment 0 holds the status
\* line and the header, segment k the k-th block of the body.
ClientBody ==
    [i \in 1..(Len(reassembled) - 1) |-> http_resp.body[reassembled[i + 1]]]

\* C13: end to end, nothing lost: a GET as request_resource issues it (no
\* If-Modified-Since) for a resource of the store completes: the response
\* reaches the client, and the body the client reassembles is the data field of
\* the resource, for every number of response segments.
C13_Get == http_req = [method |-> "GET", resource |-> IndexName, modified_since |-> 0]

C13_Request ==
    /\ http_pc = "process"
    /\ C13_Get
    /\ IndexName \in DOMAIN http_store

C13_Delivered ==
    /\ C13_Get
    /\ http_pc = "sending"
    /\ reassembled = SeqUpTo(nsegs)
    /\ ClientBody = http_store[IndexName].data

C13_EndToEnd ==
    \A c \in 1..MaxRequests :
        (C13_Request /\ http_served = c) ~> (C13_Delivered /\ http_served = c)

\* C14: a GET on a resource of the store without If-Modified-Since, or with
\* one older than last_modified, is answered 200 OK with Content-Length the
\* length of the data, then the data, in segments with flags 24 and flags 25
\* on the last one.
C14_Case ==
    /\ http_req.method = "GET"
    /\ http_req.resource \in DOMAIN http_before
    /\ \/ http_req.modified_since = 0
       \/ http_req.modified_since < http_before[http_req.resource].last_modified

C14_OkResponse ==
    (C14_Case /\ http_pc # "process") =>
        /\ http_pc = "sending"
        /\ http_resp = Ok(http_before[http_req.resource].data)
        /\ SegmentFlags(FlagPSHACK, FlagFINPSHACK)

\* C15: a GET on a resource of the store with If-Modified-Since at or after
\* last_modified is answered 304 Not Modified with an empty body, and the
\* only segment of the response carries flags 25.
C15_Case ==
    /\ http_req.method = "GET"
    /\ http_req.resource \in DOMAIN http_before
    /\ http_req.modified_since # 0
    /\ http_req.modified_since >= http_before[http_req.resource].last_modified

C15_NotModified ==
    (C15_Case /\ http_pc # "process") =>
        /\ http_pc = "sending"
        /\ http_resp = NotModified
        /\ nsegs = 1
        /\ SegmentFlags(FlagFINPSHACK, FlagFINPSHACK)

\* C16: a method other than GET and POST is answered 400 Bad Request with
\* body Invalid Request, a GET for a name that is not in the store 404 Not
\* Found with body Resource Not Found; every segment of either response
\* carries flags 17 and the store is unchanged.
C16_BadMethod == http_req.method # "GET" /\ http_req.method # "POST"

C16_Missing == http_req.method = "GET" /\ http_req.resource \notin DOMAIN http_before

C16_ErrorSent(resp) ==
    /\ http_pc = "sending"
    /\ http_resp = resp
    /\ flags = FlagFINACK
    /\ SegmentFlags(FlagFINACK, FlagFINACK)
    /\ lastTaken \in {0, FlagFINACK}
    /\ http_store = http_before

C16_ErrorResponses ==
    (http_pc \in {"sending", "raised"}) =>
        /\ C16_BadMethod =>
              /\ C16_ErrorSent(BadRequest)
              /\ http_resp.status = "HTTP/1.1 400 Bad Request"
              /\ http_resp.text = "Invalid Request"
        /\ (C16_Missing /\ ~C16_BadMethod) =>
              /\ C16_ErrorSent(NotFound)
              /\ http_resp.status = "HTTP/1.1 404 Not Found"
              /\ http_resp.text = "Resource Not Found"

\* The client has taken the 404 Not Found of a GET for a name not in the store.
C16_Witness ==
    /\ C16_Missing
    /\ http_resp = NotFound
    /\ spc = "done"
    /\ rpc = "fin"
    /\ lastTaken = FlagFINACK
    /\ reassembled = <<0>>

\* C17: a POST never overwrites: once a POST is processed every entry the
\* store held before it is unchanged, and the store holds exactly one key more.
C17_PostAddsOneKey ==
    (http_req.method = "POST" /\ http_pc = "sending") =>
        /\ \A k \in DOMAIN http_before :
              k \in DOMAIN http_store /\ http_store[k] = http_before[k]
        /\ Cardinality(DOMAIN http_store) = Cardinality(DOMAIN http_before) + 1


\* C18: the next_hop gate.  A client, server or router that reads a datagram
\* whose next_hop is none of its own addresses drops it: it sends and forwards
\* nothing, and base, seq_num, ack_num, the window and the reassembled
\* payload are unchanged - in the handshake, the ACK wait, the reception
\* loop and the forwarding loop.
C18_ReceptionGate ==
    (/\ rpc = "recv"
     /\ dataQ # <<>>
     /\ dataQ' = Tail(dataQ)
     /\ Head(dataQ).next_hop # ReceiverIP)
    => UNCHANGED <<ack_num, reassembled, rflags, rpc, ackQ, acksSent, lastAck,
                   window_size, base, seq_num>>

C18_AckWaitGate ==
    (/\ spc = "wait"
     /\ ackQ # <<>>
     /\ ackQ' = Tail(ackQ)
     /\ Head(ackQ).next_hop # SenderIP)
    => UNCHANGED <<base, seq_num, flags, spc, dataQ, sentLog, window_size, ack_num,
                   reassembled>>

C18_HandshakeGate ==
    /\ (/\ hs_client.pc = "syn_sent"
        /\ hs_s2c # <<>>
        /\ hs_s2c' = Tail(hs_s2c)
        /\ Head(hs_s2c).next_hop # ClientIP)
       => UNCHANGED <<hs_client, hs_c2s>>
    /\ (/\ hs_server.pc \in {"listen", "syn_rcvd"}
        /\ hs_c2s # <<>>
        /\ hs_c2s' = Tail(hs_c2s)
        /\ Head(hs_c2s).next_hop # ServerIP)
       => UNCHANGED <<hs_server, hs_s2c>>

C18_ForwardingGate ==
    (/\ fw_pc = "ready"
     /\ fw_pc' = "done"
     /\ \A i \in 1..Len(FwInterfaces) : FwInterfaces[i].local # fw_in.next_hop)
    => fw_out' = <<>>

C18_NextHopGate ==
    [][/\ C18_ReceptionGate
       /\ C18_AckWaitGate
       /\ C18_HandshakeGate
       /\ C18_ForwardingGate]_vars

\* The client, in its reception loop, has read the first response segment as
\* an earlier hop sent it and dropped it: the segment of the last hop is still
\* in flight, nothing is taken and nothing acknowledged.
C18_Witness ==
    /\ role = "server"
    /\ rpc = "recv"
    /\ hop_copies = 1
    /\ lost = 0
    /\ Cardinality(sentLog) = 1
    /\ Len(dataQ) = 1
    /\ Head(dataQ).next_hop = ReceiverIP
    /\ reassembled = <<>>
    /\ acksSent = 0
    /\ ackQ = <<>>


\* C19: a router calls forward_datagram only in its forwarding loop, after
\* run_route_alg has filled its forwarding table: no HTTP datagram is
\* forwarded by a router that is still flooding.
C19_ForwardAfterRouting ==
    \A c \in ls_calls :
        /\ c.phase = "forwarding"
        /\ c.table # <<>>
        /\ c.table = ls_table[c.r]

\* A datagram that reached router 1 while it was flooding was dropped, and a
\* later one went through both routers to the host behind router 2.
C19_Witness ==
    /\ ls_injected = 2
    /\ \A c \in ls_calls : c.dgram.data = 1
    /\ \E c \in ls_calls : c.r = 2 /\ c.out # <<>> /\ c.out[1].to = HostAddr(2)


\* C21: a client that has sent its SYN and gets no SYN/ACK addressed to it
\* ends its handshake with failure, whatever other datagrams it reads in
\* the meantime: the handshake is left as established only on a datagram
\* with flags 18 and next_hop the client's address, and otherwise it fails;
\* after the failure the client has sent nothing but its SYN, sends no data
\* segment, and request_resource closes the socket and returns the failure
\* text.
C21_OnlySynAckConnects ==
    (hs_client.pc = "syn_sent" /\ hs_client'.pc = "established")
        => /\ hs_s2c # <<>>
           /\ Head(hs_s2c).flags = FlagSYNACK
           /\ Head(hs_s2c).next_hop = ClientIP

C21_SilentAfterFailure ==
    hs_client.pc = "failed"
        => /\ cl_pc \in {"handshake", "closed"}
           /\ cl_pc = "closed" => cl_result = FailureText
           /\ spc = "idle"
           /\ sentLog = {}
           /\ dataQ = <<>>
           /\ \A i \in 1..Len(hs_c2s) : hs_c2s[i].flags = FlagSYN

C22_RetransmissionEnds == <>[](spc = "done" \/ burstKind # "rexmit" \/ spc # "burst")


\* C26: every transmission of segment i carries the sequence number the send
\* started with plus i, that is ISN + i + 1, and the payload segments[i]: in
\* the first pass of the for loop, in the sends an ACK triggers and in every
\* retransmission after a timeout; so does every data datagram in flight.
C26_SeqOfSegment ==
    /\ spc # "idle" => init_seq_num = ISN + 1
    /\ \A e \in sentLog : e[2] = ISN + e[1] + 1
    /\ \A i \in 1..Len(dataQ) :
          dataQ[i].flags # FlagACK => dataQ[i].seq_num = ISN + dataQ[i].data + 1

\* One segment has gone out from the ACK branch and again in a retransmission,
\* and a retransmitted segment is in flight.
C26_Witness ==
    /\ \E e \in sentLog : \E f \in sentLog :
          e[1] = f[1] /\ e[4] = "ack" /\ f[4] = "rexmit"
    /\ \E e \in sentLog : e[4] = "first" /\ e[1] > 0
    /\ burstKind = "rexmit"
    /\ dataQ # <<>>

\* C27: the sender's base changes only by +1, and only when the frame read
\* in the ACK loop has flags 16, next_hop the sender's address, the receiver
\* as its IP source and the acknowledgment number n the sender waits for;
\* any other frame read leaves base and seq_num as they were and sends
\* nothing.  With segment i carrying ISN + i + 1, the number waited for is
\* that of segment base plus one, base + ISN + 2.
C27_ReadsAck(n) ==
    /\ spc = "wait"
    /\ ackQ # <<>>
    /\ ackQ' = Tail(ackQ)
    /\ Head(ackQ).flags = FlagACK
    /\ Head(ackQ).next_hop = SenderIP
    /\ Head(ackQ).ip_saddr = ReceiverIP
    /\ Head(ackQ).ack_num = n

C27_Step(n) ==
    /\ base' # base => (base' = base + 1 /\ C27_ReadsAck(n))
    /\ (spc = "wait" /\ ackQ # <<>> /\ ackQ' = Tail(ackQ) /\ ~C27_ReadsAck(n))
          => UNCHANGED <<base, seq_num, dataQ, lost, sentLog, spc>>

C27_BaseOnlyOnAck == [][C27_Step(base + ISN + 2)]_vars

\* C27 as stated: the acknowledgment number waited for is base + ISN + 1.
C27_AsStated == [][C27_Step(base + ISN + 1)]_vars

\* The sender has read an ACK that acknowledges nothing new, a datagram that
\* an earlier hop sent, and an acceptable ACK.
C27_Witness ==
    /\ role = "client"
    /\ hop_copies = 1
    /\ base = 1
    /\ nsegs = 3
    /\ spc = "wait"
    /\ ackQ = <<>>
    /\ dataQ = <<>>
    /\ lost = 1
    /\ Cardinality(sentLog) = 3

\* C28: on a timeout with base = b < N the sender retransmits the segments
\* b .. min(N, b + W) - 1, each once and in increasing order of sequence
\* number, and then waits for ACKs again.
C28_Burst(q) ==
    /\ Len(q) = (IF nsegs < base + window_size THEN nsegs ELSE base + window_size) - base
    /\ \A i \in 1..Len(q) : q[i] = base + i - 1

C28_Step ==
    /\ (spc = "wait" /\ spc' = "burst")
          => (base < nsegs /\ burstSent' = <<>> /\ burstKind' = "rexmit" /\ base' = base
              /\ seq_num' = base + ISN + 1)
    /\ (burstKind = "rexmit" /\ spc = "burst" /\ burstSent' # burstSent)
          => /\ burstSent' = Append(burstSent, base + Len(burstSent))
             /\ <<base + Len(burstSent), seq_num, flags', "rexmit">> \in sentLog'
             /\ seq_num = ISN + 1 + base + Len(burstSent)
             /\ seq_num' = seq_num + 1
             /\ base' = base
    /\ (burstKind = "rexmit" /\ spc = "burst")
          => (spc' = "wait" <=> C28_Burst(burstSent'))

C28_RetransmitWindow == [][C28_Step]_vars

\* A retransmission of a whole window from a base above 0 has ended.
C28_Witness ==
    /\ burstKind = "rexmit"
    /\ spc = "wait"
    /\ base = 1
    /\ window_size = 3
    /\ nsegs = 5
    /\ burstSent = <<1, 2, 3>>

\* C29: after a handshake that both endpoints report as successful both
\* hold the same window, the minimum of the two initial windows, the
\* client's ack_num is the server's seq_num (the server's ISN + 1) and the
\* server's ack_num is the client's seq_num (the client's ISN + 1).  An
\* endpoint's window changes in one step only, the one that reads the SYN
\* (server) or the SYN/ACK (client), so the window an endpoint holds before
\* that step is its initial window.
C29_Smaller(a, b) == IF a < b THEN a ELSE b

C29_Agree ==
    (hs_client.pc = "established" /\ hs_server.pc = "established")
       => /\ hs_client.window_size = hs_server.window_size
          /\ hs_client.ack_num = hs_server.seq_num
          /\ hs_server.seq_num = ISN + 1
          /\ hs_server.ack_num = hs_client.seq_num
          /\ hs_client.seq_num = ISN + 1

C29_WindowStep ==
    /\ hs_server'.window_size # hs_server.window_size
          => (hs_server.pc = "listen" /\ hs_server'.pc = "syn_rcvd")
    /\ hs_client'.window_size # hs_client.window_size
          => (hs_client.pc = "syn_sent" /\ hs_client'.pc = "established")
    /\ (hs_server.pc = "listen" /\ hs_server'.pc = "syn_rcvd")
          => /\ hs_client.pc \in {"syn_sent", "failed"}
             /\ hs_server'.window_size =
                   C29_Smaller(hs_server.window_size, hs_client.window_size)
    /\ (hs_client.pc = "syn_sent" /\ hs_client'.pc = "established")
          => /\ hs_server.pc \in {"syn_rcvd", "reset"}
             /\ hs_client'.window_size = hs_server.window_size
             /\ hs_server.window_size <= hs_client.window_size

C29_HandshakeAgreement == [](C29_Agree) /\ [][C29_WindowStep]_vars

\* Both endpoints have returned True and hold the window 2, with a hop's
\* copy of a handshake frame read and passed over on the way.
C29_Witness ==
    /\ hs_client.pc = "established"
    /\ hs_server.pc = "established"
    /\ hs_client.window_size = 2
    /\ hs_server.window_size = 2
    /\ hop_copies = 1

\* C24: each endpoint passes through its phases in order and never goes
\* back; the client transmits no data segment before it has received a
\* SYN/ACK; the server sends no SYN/ACK before it has received a SYN, and
\* no response segment before it has received the handshake ACK and the
\* complete request.
C24_ClientPhase ==
    CASE cl_pc = "closed" -> 5
      [] cl_pc = "receiving" -> 4
      [] cl_pc = "sending" -> 3
      [] hs_client.pc = "start" -> 0
      [] hs_client.pc = "syn_sent" -> 1
      [] OTHER -> 2

C24_ServerPhase ==
    CASE sv_pc = "closed" -> 5
      [] sv_pc = "processing" -> 4
      [] sv_pc = "receiving" -> 3
      [] hs_server.pc = "listen" -> 0
      [] hs_server.pc = "syn_rcvd" -> 1
      [] OTHER -> 2

C24_Step ==
    /\ C24_ClientPhase' >= C24_ClientPhase
    /\ C24_ServerPhase' >= C24_ServerPhase
    /\ (role' = "client" /\ sentLog' \ sentLog # {})
          => /\ hs_client.pc = "established"
             /\ cl_pc = "sending"
             /\ \A e \in sentLog' \ sentLog : e[3] \in {FlagPSHACK, FlagFINPSHACK}
    /\ (hs_client.pc # "established" /\ hs_client'.pc = "established")
          => /\ hs_s2c # <<>>
             /\ Head(hs_s2c).flags = FlagSYNACK
             /\ Head(hs_s2c).next_hop = ClientIP
    /\ ((hs_server.pc = "listen" /\ hs_server'.pc # "listen")
         \/ (Len(hs_s2c') > Len(hs_s2c) /\ hs_junk' = hs_junk))
          => /\ hs_c2s # <<>>
             /\ Head(hs_c2s).flags = FlagSYN
             /\ Head(hs_c2s).next_hop = ServerIP
             /\ hs_c2s' = Tail(hs_c2s)
    /\ (hs_server.pc # "established" /\ hs_server'.pc = "established")
          => /\ hs_c2s # <<>>
             /\ Head(hs_c2s).flags = FlagACK
             /\ Head(hs_c2s).next_hop = ServerIP
    /\ sv_request' # sv_request
          => /\ sv_request = <<>>
             /\ hs_server.pc = "established"
             /\ sv_request' = [i \in 1..nsegs |-> i - 1]
    /\ (role' = "server" /\ sentLog' \ sentLog # {})
          => /\ hs_server.pc = "established"
             /\ sv_pc = "processing"
             /\ sv_request # <<>>
             /\ \A e \in sentLog' \ sentLog :
                   e[3] \in {FlagPSHACK, FlagFINPSHACK, FlagFINACK}

C24_PhaseOrder == [][C24_Step]_vars

\* The server has sent a response segment after a request of two segments,
\* and the client is reading the response.
C24_Witness ==
    /\ role = "server"
    /\ sentLog # {}
    /\ sv_pc = "processing"
    /\ Len(sv_request) = 2
    /\ cl_pc = "receiving"
    /\ hs_junk = 1

\* C25: for every well-formed LSA datagram and HTTP-carrying datagram d,
\* from_bytes(to_bytes(d)) has every field equal to that of d, the IP
\* checksum taken as zero.
C25_RoundTrip ==
    (wire_task \in {"LSADatagram", "HTTPDatagram"} /\ wire_pc = "decoded")
       => /\ ~Raised(wire_out)
          /\ [wire_out EXCEPT !.ip_check = 0] = [wire_in EXCEPT !.ip_check = 0]

\* The HTTP-carrying datagram with every field at its largest value and a
\* payload of a four-byte and a three-byte character has been converted to
\* its 51 bytes and back.
C25_Witness ==
    /\ wire_pc = "decoded"
    /\ wire_in = HttpLargest
    /\ wire_out = HttpLargest
    /\ Len(wire_bytes) = 51

\* C23: a received buffer shorter than the fixed header of its shape (20
\* octets IP, 26 LSA, 44 HTTP-carrying) is dropped locally: the task that
\* read it goes on in its loop; the decode failure neither reaches the
\* caller nor ends the task.
C23_Short ==
    Len(wire_bytes) < (IF IsLsa(wire_in) THEN LSAHeaderLen ELSE HTTPHeaderLen)

C23_ShortDroppedLocally ==
    (wire_task \in RouterTasks \cup ClientTasks \cup ServerTasks
       /\ wire_pc # "recv" /\ C23_Short)
       => wire_pc = "loop"

\* C30: a datagram forwarded by a router leaves with the IP source and
\* destination, the ports, seq_num, ack_num, flags, window and payload the
\* sender emitted, for every size an endpoint can emit; only next_hop
\* differs: it is the peer address of the outgoing interface, the address
\* the datagram is sent to.
C30_KeptFields ==
    {"ip_saddr", "ip_daddr", "source_port", "dest_port", "seq_num", "ack_num", "flags",
     "window_size", "data"}

C30_ForwardKeepsFields ==
    (wire_task = "relay" /\ wire_pc = "forwarded")
       => /\ \A f \in C30_KeptFields : wire_out.dgram[f] = wire_in[f]
          /\ wire_out.dgram.next_hop = wire_out.to
          /\ wire_out.to = IfaceGet(RelayInterfaces, wire_out.iface).peer


\* ------------------------------------------ claims on flooding and phases
\* The interface names forward_lsa sends the LSA held by router r on.
C31_SentOn(r) ==
    LET ifs == RouterInterfaces(ls_topo, r)
    IN {ifs[k].name : k \in FloodInterfaces(ifs, ls_pending[r].lsa_int)}

\* The routers whose sockets got one more datagram in this step.
C31_Reached == {j \in Routers : Len(ls_queue'[j]) = Len(ls_queue[j]) + 1}

\* C31: an accepted LSA is re-emitted once on every interface of the router
\* other than the one it arrived on and never on the interface it arrived on,
\* whether an interface socket or the socket 'rec' delivered it.
C31_FloodSplitHorizon ==
    [][\A r \in Routers :
          (ls_pending[r] # NoLsa /\ ls_pending'[r] = NoLsa) =>
              LET ifs == RouterInterfaces(ls_topo, r)
                  m   == ls_pending[r].lsa
              IN /\ C31_SentOn(r) = {ifs[k].name : k \in 1..Len(ifs)} \ {m.iface}
                 /\ m.src[1] \notin C31_Reached
                 /\ \A k \in 1..Len(ifs) :
                       (ToRouter(ifs[k]) /\ ifs[k].name # m.iface)
                           => ifs[k].peer[1] \in C31_Reached]_vars


\* The LSAs in flight: in the sockets of the routers or held by forward_lsa.
C32_InFlight ==
    UNION {{ls_queue[r][k] : k \in 1..Len(ls_queue[r])} : r \in Routers}
        \cup {ls_pending[r].lsa : r \in {x \in Routers : ls_pending[x] # NoLsa}}

\* C32: flooding preserves an LSA: every copy in flight carries the adv_rtr,
\* the sequence number and the text of its originator's initial LSA, and the
\* LSDB entry a router holds for another router equals that router's own
\* entry, the list of its direct connections in order.
C32_FloodPreserves ==
    /\ \A m \in C32_InFlight :
          \E j \in Routers :
              /\ m.adv = RouterId(j)
              /\ m.seq = 0
              /\ m.data = FormatLsa(LsdbGet(ls_lsdb[j], RouterId(j)))
    /\ \A x \in Routers : \A j \in Routers \ {x} :
          LsdbHas(ls_lsdb[x], RouterId(j)) =>
              /\ LsdbGet(ls_lsdb[x], RouterId(j)) = LsdbGet(ls_lsdb[j], RouterId(j))
              /\ LsdbGet(ls_lsdb[x], RouterId(j)) = DirectConnections(ls_topo, j)

\* Router 1 of a line of three holds the entry of router 3, which reached it
\* through router 2.
C32_Witness ==
    /\ ls_topo = [n |-> 3, kind |-> "line"]
    /\ LsdbHas(ls_lsdb[1], RouterId(3))
    /\ LsdbGet(ls_lsdb[1], RouterId(3)) = DirectConnections(ls_topo, 3)
    /\ Len(DirectConnections(ls_topo, 3)) = 2


\* ------------------------------------------------ claims on run_route_alg
RECURSIVE C33_WalkCosts(_, _, _, _)
\* The total costs of the directed walks of at most k edges from a to d in
\* the graph of the LSDB l.
C33_WalkCosts(l, a, d, k) ==
    (IF a = d THEN {0} ELSE {})
    \cup (IF k = 0 THEN {}
          ELSE UNION {{e[3] + c : c \in C33_WalkCosts(l, e[2], d, k - 1)} :
                         e \in {x \in AllEdges(l) : x[1] = a}})

\* The direct connections of the router the table is computed for.
C33_Own == GraphEdges(rt_lsdb, RouterId(rt_self))

\* C33: for every destination reachable from the router, other than the
\* router itself, the interface of the forwarding table is the interface of
\* one of the router's own direct connections, the first edge of a path to
\* the destination whose total cost is the stored cost, and never an
\* interface taken from another router's LSA; a direct connection of cost 0
\* maps to the interface direct_connections names for it.
C33_OwnInterface ==
    rt_pc = "done" =>
        /\ \A i \in 1..Len(rt_table) :
              (rt_table[i].dest # RouterId(rt_self) /\ rt_table[i].cost < Infinity) =>
                  \E k \in 1..Len(C33_Own) :
                      /\ rt_table[i].iface = C33_Own[k][3]
                      /\ rt_table[i].cost - C33_Own[k][2] \in
                            C33_WalkCosts(rt_lsdb, C33_Own[k][1], rt_table[i].dest,
                                          Cardinality(AllNodes(rt_lsdb)))
        /\ \A k \in 1..Len(C33_Own) :
              C33_Own[k][2] = 0 =>
                  /\ TableHas(rt_table, C33_Own[k][1])
                  /\ TableGet(rt_table, C33_Own[k][1]).iface = C33_Own[k][3]
                  /\ TableGet(rt_table, C33_Own[k][1]).cost = 0

\* Router 1 reaches router 3 only through router 2: the table names router
\* 1's interface to router 2, router 2's LSA names another interface for its
\* link to router 3, and a direct connection of cost 0 keeps its interface.
C33_Witness ==
    /\ rt_pc = "done"
    /\ rt_self = 1
    /\ \A k \in 1..Len(C33_Own) : C33_Own[k][1] # RouterId(3)
    /\ TableHas(rt_table, RouterId(3))
    /\ LsdbHas(rt_lsdb, RouterId(2))
    /\ TableGet(rt_table, RouterId(3)).iface = "Gi0/2"
    /\ TableGet(rt_table, RouterId(3)).cost = 2
    /\ \E k \in 1..Len(GraphEdges(rt_lsdb, RouterId(2))) :
          /\ GraphEdges(rt_lsdb, RouterId(2))[k][1] = RouterId(3)
          /\ GraphEdges(rt_lsdb, RouterId(2))[k][3] = "Gi0/3"
    /\ \E k \in 1..Len(C33_Own) : C33_Own[k][2] = 0


\* Router r reads an LSA that names r itself as advertising router.
C34_ReadsOwn(r) ==
    /\ Len(ls_queue'[r]) < Len(ls_queue[r])
    /\ ls_last'.r = r
    /\ ls_last'.adv = RouterId(r)

\* C34: a router's own LSDB entry always equals the list built from its
\* direct connections: an LSA read with the router's own id as adv_rtr,
\* whatever its sequence number, changes neither the LSDB, nor the table of
\* highest sequence numbers, nor the quiescence timer, and is not flooded.
C34_OwnEntryKept ==
    /\ [](\A r \in Routers :
             /\ LsdbGet(ls_lsdb[r], RouterId(r)) = DirectConnections(ls_topo, r)
             /\ RouterId(r) \notin DOMAIN ls_num[r])
    /\ [][\A r \in Routers :
             C34_ReadsOwn(r) =>
                 /\ ls_lsdb' = ls_lsdb
                 /\ ls_num' = ls_num
                 /\ ls_timer' = ls_timer
                 /\ ls_busy' = ls_busy
                 /\ ls_pending'[r] = NoLsa
                 /\ \A j \in Routers \ {r} : ls_queue'[j] = ls_queue[j]]_vars

\* Router 1 has read an LSA of sequence number 1 that names router 1, after
\* it took the LSA of router 2; its own entry is the one it started with.
C34_Witness ==
    /\ ls_last = [r |-> 1, adv |-> RouterId(1), seq |-> 1]
    /\ LsdbHas(ls_lsdb[1], RouterId(2))
    /\ LsdbGet(ls_lsdb[1], RouterId(1)) = DirectConnections(ls_topo, 1)
    /\ DOMAIN ls_num[1] = {RouterId(2)}


\* The datagrams that joined the sockets of router j in this step.
C35_Arrived(j) ==
    IF Len(ls_queue'[j]) > Len(ls_queue[j])
    THEN {ls_queue'[j][k] : k \in (Len(ls_queue[j]) + 1)..Len(ls_queue'[j])}
    ELSE {}

\* C35: flooding and forwarding are disjoint phases: once a router has
\* computed its forwarding table and is in its forwarding loop, no datagram
\* it reads, LSA or HTTP, changes its LSDB, its table of highest sequence
\* numbers or its forwarding table, and the router sends no LSA.
C35_PhasesDisjoint ==
    [][\A r \in Routers :
          ls_phase[r] = "forwarding" =>
              /\ ls_phase'[r] = "forwarding"
              /\ ls_lsdb'[r] = ls_lsdb[r]
              /\ ls_num'[r] = ls_num[r]
              /\ ls_table'[r] = ls_table[r]
              /\ ls_table[r] = RunRouteAlg(ls_lsdb[r], RouterId(r))
              /\ ls_pending'[r] = NoLsa
              /\ \A j \in Routers : \A m \in C35_Arrived(j) : m.src[1] # r]_vars

\* Router 1, in its forwarding loop, has read an LSA of router 2 with a
\* sequence number above the recorded one and an HTTP datagram, which it
\* forwarded; the number recorded for router 2 is still 0.
C35_Witness ==
    /\ ls_phase[1] = "forwarding"
    /\ ls_last = [r |-> 1, adv |-> RouterId(2), seq |-> 1]
    /\ ls_num[1] = SetNum(<<>>, RouterId(2), 0)
    /\ \E c \in ls_calls : c.r = 1 /\ c.dgram = LsaReadAsHttp(
                                [src |-> HostAddr(1), data |-> FormatLsa(DirectConnections(ls_topo, 2))])
    /\ \E c \in ls_calls : c.r = 1 /\ c.out # <<>>


\* The HTTP datagram numbered id is in the sockets of router r.
C40_InSockets(r, id) == \E k \in 1..Len(ls_http[r]) : ls_http[r][k].data = id

\* Router r has handed the datagram numbered id to forward_datagram.
C40_Forwarded(r, id) == \E c \in ls_calls : c.r = r /\ c.dgram.data = id

\* A router in its flooding loop reads an HTTP datagram.
C40_ReadsFlooding(r) ==
    /\ ls_phase[r] = "flooding"
    /\ ls_http[r] # <<>>
    /\ ls_http'[r] = Tail(ls_http[r])

\* C40: an HTTP datagram that the flooding loop of a router reads is consumed
\* and discarded: it is in no socket afterwards and is never forwarded, and
\* it changes neither the LSDB, nor the table of highest sequence numbers,
\* nor the quiescence timer; a datagram is handed to forward_datagram only by
\* a router in its forwarding loop that reads it from its sockets.
C40_ReadInFloodingDiscarded ==
    [][\A r \in Routers :
          /\ C40_ReadsFlooding(r) =>
                 /\ ls_calls' = ls_calls
                 /\ ls_lsdb' = ls_lsdb
                 /\ ls_num' = ls_num
                 /\ ls_timer' = ls_timer
                 /\ \A j \in Routers : \A k \in 1..Len(ls_http'[j]) :
                        ls_http'[j][k].data # Head(ls_http[r]).data
          /\ \A id \in 0..(MaxInject - 1) :
                 (~C40_Forwarded(r, id) /\ C40_Forwarded(r, id)') =>
                     /\ ls_phase[r] = "forwarding"
                     /\ ls_http[r] # <<>>
                     /\ Head(ls_http[r]).data = id]_vars

\* C40 as stated: an HTTP datagram that reaches a router still in its
\* flooding phase is not queued, whether the flooding loop reads it or not:
\* when the router leaves its flooding loop none is waiting in its sockets
\* for the forwarding loop to read and forward.
C40_DiscardedInFlooding ==
    [][\A r \in Routers :
          (ls_phase[r] = "flooding" /\ ls_phase'[r] = "forwarding") => ls_http[r] = <<>>]_vars

\* Router 1 read the first datagram in its flooding loop and never handed it
\* to forward_datagram; the second one, read in the forwarding loop, it did.
C40_Witness ==
    /\ ls_phase[1] = "forwarding"
    /\ ls_injected = 2
    /\ ls_http[1] = <<>>
    /\ ~C40_Forwarded(1, 0)
    /\ C40_Forwarded(1, 1)


\* C37: LSA acceptance is all-or-nothing: every advertising router with a
\* recorded highest sequence number also has an LSDB entry, decoded from the
\* LSA of that number, and that LSA is flooded, whatever the text of the
\* LSA, an empty one included.
C37_AllOrNothing ==
    /\ [](\A r \in Routers : \A adv \in DOMAIN ls_num[r] : LsdbHas(ls_lsdb[r], adv))
    /\ [][\A r \in Routers :
             ls_num'[r] # ls_num[r] =>
                 /\ ls_pending'[r] # NoLsa
                 /\ ls_pending'[r].lsa.adv = ls_last'.adv
                 /\ ls_pending'[r].lsa.seq = ls_last'.seq
                 /\ LsdbHas(ls_lsdb'[r], ls_last'.adv)
                 /\ LsdbGet(ls_lsdb'[r], ls_last'.adv) = ParseLsa(ls_pending'[r].lsa.data)]_vars


\* Router r takes an LSA for flooding in this step.
C38_Takes(r) == ls_pending[r] = NoLsa /\ ls_pending'[r] # NoLsa

\* Some router's sockets get a datagram in this step.
C38_Transmits == \E j \in Routers : Len(ls_queue'[j]) > Len(ls_queue[j])

\* No LSA is in a socket of a flooding router or held for flooding, and the
\* flooding loops have ended.
C38_Quiet ==
    \A r \in Routers :
        /\ ls_phase[r] = "forwarding"
        /\ ls_pending[r] = NoLsa

\* C38: flooding terminates: a router accepts and floods at most one LSA per
\* advertising router and sequence number, LSAs are sent only in a router's
\* initial burst and in the one flood that follows an acceptance, and in
\* every mesh, the ring included, the flooding ends: no LSA circulates
\* forever.
C38_FloodingTerminates ==
    /\ [][/\ \A r \in Routers :
                C38_Takes(r) =>
                    /\ <<ls_pending'[r].lsa.adv, ls_pending'[r].lsa.seq>> \notin ls_accepted[r]
                    /\ <<ls_pending'[r].lsa.adv, ls_pending'[r].lsa.seq>> \in ls_accepted'[r]
          /\ C38_Transmits =>
                \/ ls_init' = ls_init + 1
                \/ \E r \in Routers : ls_pending[r] # NoLsa /\ ls_pending'[r] = NoLsa
          /\ \A r \in Routers : Cardinality(ls_accepted'[r]) <= ls_topo.n - 1]_vars
    /\ <>[]C38_Quiet

\* The ring of three at rest: every router has accepted the LSA of each of
\* the two others once, and no LSA is held for flooding.
C38_Witness ==
    /\ ls_topo = [n |-> 3, kind |-> "ring"]
    /\ C38_Quiet
    /\ \A r \in Routers : Cardinality(ls_accepted[r]) = 2
    /\ \A r \in Routers : ls_queue[r] = <<>>


\* ------------------------------------------- claims on the request path
\* The server reads a request data segment addressed to it.
C36_ReadsSegment ==
    /\ role = "client"
    /\ dataQ # <<>>
    /\ dataQ' = Tail(dataQ)
    /\ DataForMe(Head(dataQ))

\* C36: every request data segment the client transmits or retransmits is
\* answered by a cumulative ACK of the server, also once the server has taken
\* the last request segment and has gone on to the response; so the loss of
\* the ACK of the last request segment does not leave the client with
\* base < N forever.
C36_RequestAlwaysAcked ==
    /\ [][C36_ReadsSegment =>
             /\ lastAck'.flags = FlagACK
             /\ lastAck'.ack_num = ack_num'
             /\ \/ ackQ' = Append(ackQ, Routed(lastAck'))
                \/ lost' = lost + 1]_vars
    /\ (role = "client") => <>[](base = nsegs)

\* The router whose attached subnet holds the destination of the datagram.
C39_DestRouter ==
    CHOOSE j \in 1..path_mesh.n : HostOfSubnet(path_mesh, j) = path_dgram.ip_daddr

\* The routers router a has a link to, and the cost of the link to router b.
C39_Linked(a) ==
    {b \in 1..path_mesh.n :
        \E k \in 1..Len(MeshConnections(path_mesh, a)) :
            MeshConnections(path_mesh, a)[k][1] = RouterId(b)}

C39_LinkCost(a, b) ==
    LET c == MeshConnections(path_mesh, a)
    IN c[CHOOSE k \in 1..Len(c) : c[k][1] = RouterId(b)][2]

RECURSIVE C39_MinCost(_, _, _)
\* The least cost of a path of links from router a to router j through no
\* router of avoid: the reference the route of the datagram is held against.
C39_MinCost(a, j, avoid) ==
    IF a = j THEN 0
    ELSE SetMin({Infinity} \cup
                {Plus(C39_MinCost(b, j, avoid \cup {a}), C39_LinkCost(a, b)) :
                    b \in C39_Linked(a) \ (avoid \cup {a})})

\* C39: with every forwarding table computed from the complete LSDB, a
\* datagram for a host of a router's attached subnet, handed to any router,
\* moves along a least-cost path, visits no router twice, is never dropped,
\* and leaves the mesh on the interface attached to that subnet.
C39_DeliveredOnLeastCostPath ==
    path_pc # "idle" =>
        /\ \A x \in 1..Len(path_visited) : \A y \in 1..Len(path_visited) :
              path_visited[x] = path_visited[y] => x = y
        /\ \A k \in 1..(Len(path_visited) - 1) :
              /\ path_visited[k + 1] \in C39_Linked(path_visited[k])
              /\ C39_LinkCost(path_visited[k], path_visited[k + 1])
                     + C39_MinCost(path_visited[k + 1], C39_DestRouter, {})
                    = C39_MinCost(path_visited[k], C39_DestRouter, {})
        /\ path_pc # "dropped"
        /\ path_pc = "emitted" =>
              /\ path_at = C39_DestRouter
              /\ path_out.iface = MeshConnections(path_mesh, C39_DestRouter)[1][3]

====
